---- MODULE Spec2Model ----
(***************************************************************************)
(* A model of the Fastmail MCP server: the JMAP client with its session    *)
(* cache (client.ts), the mailbox and email verbs (methods.ts) and the     *)
(* tool handlers with the preview/confirm gate (index.ts).                 *)
(*                                                                         *)
(* Strings that the code inspects (toLowerCase, startsWith, split, trim)   *)
(* are sequences of one-character strings; strings that the code only      *)
(* passes along are TLA+ strings.                                          *)
(***************************************************************************)
EXTENDS Integers, Sequences, FiniteSets, TLC

VARIABLES
    client,      \* the singleton JMAPClient of client.ts: [exists, session]
    pc,          \* per caller: where its client call stands
    cur,         \* per caller: the client call in progress
    log,         \* completed client calls, in completion order
    nstarted,    \* client calls started so far
    sessionFetches, \* GETs of the session endpoint issued
    okFetches,   \* GETs of the session endpoint answered 2xx
    lastWrite,   \* the body of the latest 2xx answer of the session endpoint
    mailboxes,   \* the account's mailbox listing (remote state)
    mbInput,     \* getMailboxByName: the name asked for
    mbResult,    \* getMailboxByName: what it returned
    emails,      \* per email id: its mailboxIds and keywords (remote state)
    created,     \* the emails created and submitted so far (remote state)
    last,        \* the latest tool invocation and what it did
    prev,        \* the tool invocation before it
    previewed,   \* the tools invoked with action=preview so far
    ninv         \* tool invocations so far

sessVars == <<client, pc, cur, log, nstarted, sessionFetches, okFetches,
              lastWrite>>
mbVars == <<mailboxes, mbInput, mbResult>>
gateVars == <<emails, created, last, prev, previewed, ninv>>
vars == <<client, pc, cur, log, nstarted, sessionFetches, okFetches,
          lastWrite, mailboxes, mbInput, mbResult,
          emails, created, last, prev, previewed, ninv>>

----------------------------------------------------------------------------
(* Strings as sequences of characters *)

UpperChars == <<"A", "B", "D", "E", "F", "H", "I", "J", "K", "M", "N", "O", "P", "R", "S", "T", "U", "W", "X">>
LowerChars == <<"a", "b", "d", "e", "f", "h", "i", "j", "k", "m", "n", "o", "p", "r", "s", "t", "u", "w", "x">>

\* String.prototype.toLowerCase on one character
toLowerChar(c) ==
    IF \E i \in 1..Len(UpperChars) : UpperChars[i] = c
    THEN LowerChars[CHOOSE i \in 1..Len(UpperChars) : UpperChars[i] = c]
    ELSE c

\* String.prototype.toLowerCase
toLowerCase(s) == [i \in 1..Len(s) |-> toLowerChar(s[i])]

\* String.prototype.startsWith
startsWith(s, prefix) ==
    /\ Len(s) >= Len(prefix)
    /\ SubSeq(s, 1, Len(prefix)) = prefix

----------------------------------------------------------------------------
(* Mailboxes: types.ts Mailbox, reduced to the fields the verbs read *)

NoRole == <<>>
NoMailbox == [id |-> "none", name |-> <<>>, role |-> NoRole]

\* The mailboxes an account may hold.  Ids are unique; a role is held by at
\* most one mailbox; names may repeat (folders under different parents).
MailboxPool ==
    { [id |-> "mb-junk",  name |-> <<"J","u","n","k">>,     role |-> <<"j","u","n","k">>],
      [id |-> "mb-user1", name |-> <<"j","u","n","k">>,     role |-> NoRole],
      [id |-> "mb-user2", name |-> <<"J","U","N","K">>,     role |-> NoRole],
      [id |-> "mb-inbox", name |-> <<"I","n","b","o","x">>, role |-> <<"i","n","b","o","x">>],
      [id |-> "mb-user3", name |-> <<"i","n","b","o","x">>, role |-> NoRole],
      [id |-> "mb-user4", name |-> <<"S","p","a","m">>,     role |-> NoRole] }

\* The names a caller may ask for.
NameInputs ==
    { <<"j","u","n","k">>, <<"J","u","n","k">>, <<"J","U","N","K">>,
      <<"j","U","n","k">>, <<"i","n","b","o","x">>, <<"I","N","B","O","X">>,
      <<"s","p","a","m">>, <<"n","o","p","e">> }

MaxMailboxes == 3

\* Listings: sequences of distinct pool mailboxes, no role twice.
Listings ==
    { l \in UNION { [1..n -> MailboxPool] : n \in 0..MaxMailboxes } :
        \A i, j \in 1..Len(l) :
            i # j => /\ l[i].id # l[j].id
                     /\ (l[i].role # NoRole => l[i].role # l[j].role) }

\* Array.prototype.find, given the indices whose element passes the test:
\* the first such element, or undefined (NoMailbox, which is falsy).
find(list, hits) ==
    IF hits # {}
    THEN list[CHOOSE i \in hits : \A j \in hits : i <= j]
    ELSE NoMailbox

exactHits(list, name) == { i \in 1..Len(list) : list[i].name = name }
roleHits(list, lowerName) ==
    { i \in 1..Len(list) : list[i].role # NoRole /\ list[i].role = lowerName }
lowerHits(list, lowerName) ==
    { i \in 1..Len(list) : toLowerCase(list[i].name) = lowerName }

\* A mutation of getMailboxByName: the role match is tried before the exact
\* name match.
getMailboxByNameRoleFirst(list, name) ==
    LET lowerName == toLowerCase(name)
        exact == find(list, exactHits(list, name))
        byRole == find(list, roleHits(list, lowerName))
        ci == find(list, lowerHits(list, lowerName))
    IN  IF byRole # NoMailbox THEN byRole
        ELSE IF exact # NoMailbox THEN exact
        ELSE ci

\* methods.ts getMailboxByName, applied to the listing listMailboxes returned
getMailboxByName(list, name) ==
    LET lowerName == toLowerCase(name)
        exact == find(list, exactHits(list, name))
        byRole == find(list, roleHits(list, lowerName))
        ci == find(list, lowerHits(list, lowerName))
    IN  IF exact # NoMailbox THEN exact
        ELSE IF byRole # NoMailbox THEN byRole
        ELSE ci

----------------------------------------------------------------------------
(* The session cache: client.ts JMAPClient.getSession, getAccountId,       *)
(* request, and the singleton getClient                                    *)

NoAccount == "none"
NoSession == [state |-> "null", mailAccount |-> NoAccount]

\* Bodies the session endpoint may answer with a 2xx status.  The state token
\* differs between answers; one answer lacks the mail capability account.
RemoteSessions ==
    { [state |-> "s1", mailAccount |-> "u1"],
      [state |-> "s2", mailAccount |-> "u1"],
      [state |-> "s3", mailAccount |-> NoAccount] }

NotOk == [state |-> "non-2xx", mailAccount |-> NoAccount]
SessionReplies == RemoteSessions \cup {NotOk}

Callers == {"v1", "v2"}
CallKinds == {"getSession", "getAccountId", "request"}
MaxCalls == 3

NoCall == [kind |-> "none", startAt |-> 0, startedEmpty |-> FALSE,
           fetched |-> FALSE, own |-> NoSession, sess |-> NoSession]

\* A mutation of getClient: a new client on every call.
getClientFresh(cl) == [exists |-> TRUE, session |-> NoSession]

\* client.ts getClient: the singleton, created on first use
getClient(cl) ==
    IF ~cl.exists THEN [exists |-> TRUE, session |-> NoSession] ELSE cl

\* A mutation of getSession's cache test: the cache is never consulted.
sessionCachedNever(cl) == FALSE

\* getSession, `if (this.session)`
sessionCached(cl) == cl.session # NoSession

\* A mutation of getSession's store: the first write wins.
storeSessionFirstWins(cl, body) ==
    IF cl.session # NoSession THEN cl ELSE [cl EXCEPT !.session = body]

\* getSession, `this.session = (await response.json())`
storeSession(cl, body) == [cl EXCEPT !.session = body]

\* getAccountId, after getSession returned `session`: the account id, or
\* NoAccount when it throws "No mail account found in session"
accountOf(session) == session.mailAccount

\* What a finished call leaves in the log.
Entry(p, c, ok, err) ==
    [caller |-> p, kind |-> c.kind, startAt |-> c.startAt,
     startedEmpty |-> c.startedEmpty, fetched |-> c.fetched, own |-> c.own,
     sess |-> c.sess, ok |-> ok, err |-> err]

\* The call continues after getSession returned c.sess: getSession returns
\* it, getAccountId derives the account, request goes on to its POST.
AfterSession(p, c) ==
    IF c.kind = "request"
    THEN /\ pc' = [pc EXCEPT ![p] = "posting"]
         /\ cur' = [cur EXCEPT ![p] = c]
         /\ log' = log
    ELSE /\ pc' = [pc EXCEPT ![p] = "idle"]
         /\ cur' = [cur EXCEPT ![p] = NoCall]
         /\ log' = Append(log,
                IF c.kind = "getAccountId" /\ accountOf(c.sess) = NoAccount
                THEN Entry(p, c, TRUE, "no mail account")
                ELSE Entry(p, c, TRUE, ""))

\* A caller starts getSession, getAccountId or request on getClient(): the
\* cached session is returned at once, otherwise the GET is issued.
Start(p, k) ==
    /\ pc[p] = "idle"
    /\ nstarted < MaxCalls
    /\ nstarted' = nstarted + 1
    /\ LET cl == getClient(client)
           c == [NoCall EXCEPT !.kind = k, !.startAt = Len(log),
                               !.startedEmpty = (cl.session = NoSession)]
       IN  /\ client' = cl
           /\ IF sessionCached(cl)
              THEN /\ AfterSession(p, [c EXCEPT !.sess = cl.session])
                   /\ UNCHANGED sessionFetches
              ELSE /\ pc' = [pc EXCEPT ![p] = "fetching"]
                   /\ cur' = [cur EXCEPT ![p] = [c EXCEPT !.fetched = TRUE]]
                   /\ sessionFetches' = sessionFetches + 1
                   /\ log' = log
    /\ UNCHANGED <<okFetches, lastWrite>>

\* A mutation of FetchReply: the body of a refused GET is stored as well.
FetchReplySticky(p, reply) ==
    /\ pc[p] = "fetching"
    /\ IF reply = NotOk
       THEN /\ pc' = [pc EXCEPT ![p] = "idle"]
            /\ cur' = [cur EXCEPT ![p] = NoCall]
            /\ log' = Append(log, Entry(p, cur[p], FALSE, "session fetch failed"))
            /\ client' = storeSession(client, reply)
            /\ UNCHANGED <<okFetches, lastWrite>>
       ELSE LET cl == storeSession(client, reply)
            IN  /\ client' = cl
                /\ okFetches' = okFetches + 1
                /\ lastWrite' = reply
                /\ AfterSession(p, [cur[p] EXCEPT !.own = reply, !.sess = cl.session])
    /\ UNCHANGED <<nstarted, sessionFetches>>

\* The session endpoint answers the GET of caller p.
FetchReply(p, reply) ==
    /\ pc[p] = "fetching"
    /\ IF reply = NotOk
       THEN /\ pc' = [pc EXCEPT ![p] = "idle"]
            /\ cur' = [cur EXCEPT ![p] = NoCall]
            /\ log' = Append(log, Entry(p, cur[p], FALSE, "session fetch failed"))
            /\ UNCHANGED <<client, okFetches, lastWrite>>
       ELSE LET cl == storeSession(client, reply)
            IN  /\ client' = cl
                /\ okFetches' = okFetches + 1
                /\ lastWrite' = reply
                /\ AfterSession(p, [cur[p] EXCEPT !.own = reply, !.sess = cl.session])
    /\ UNCHANGED <<nstarted, sessionFetches>>

\* The API endpoint answers the POST of caller p's request.
PostReply(p) ==
    /\ pc[p] = "posting"
    /\ pc' = [pc EXCEPT ![p] = "idle"]
    /\ cur' = [cur EXCEPT ![p] = NoCall]
    /\ log' = Append(log, Entry(p, cur[p], TRUE, ""))
    /\ UNCHANGED <<client, nstarted, sessionFetches, okFetches, lastWrite>>

\* Sequential use: a call starts only when no other call is in progress.
StartSeq(p, k) ==
    /\ \A q \in Callers : pc[q] = "idle"
    /\ Start(p, k)

\* The process has started: no client exists yet and nothing was called.
InitClient ==
    /\ client = [exists |-> FALSE, session |-> NoSession]
    /\ pc = [p \in Callers |-> "idle"]
    /\ cur = [p \in Callers |-> NoCall]
    /\ log = <<>>
    /\ nstarted = 0
    /\ sessionFetches = 0
    /\ okFetches = 0
    /\ lastWrite = NoSession
    /\ mailboxes = <<>>
    /\ mbInput = <<>>
    /\ mbResult = [called |-> FALSE, value |-> NoMailbox]
    /\ emails = << >>
    /\ created = << >>
    /\ last = << >>
    /\ prev = << >>
    /\ previewed = {}
    /\ ninv = 0

NextSession ==
    \/ \E p \in Callers, k \in CallKinds :
          Start(p, k) /\ UNCHANGED mbVars /\ UNCHANGED gateVars
    \/ \E p \in Callers, r \in SessionReplies :
          FetchReply(p, r) /\ UNCHANGED mbVars /\ UNCHANGED gateVars
    \/ \E p \in Callers :
          PostReply(p) /\ UNCHANGED mbVars /\ UNCHANGED gateVars

NextSessionSeq ==
    \/ \E p \in Callers, k \in CallKinds :
          StartSeq(p, k) /\ UNCHANGED mbVars /\ UNCHANGED gateVars
    \/ \E p \in Callers, r \in SessionReplies :
          FetchReply(p, r) /\ UNCHANGED mbVars /\ UNCHANGED gateVars
    \/ \E p \in Callers :
          PostReply(p) /\ UNCHANGED mbVars /\ UNCHANGED gateVars

\* Concurrent verbs on the singleton client.
SpecSession == InitClient /\ [][NextSession]_vars

\* One call at a time on the singleton client.
SpecSessionSeq == InitClient /\ [][NextSessionSeq]_vars

----------------------------------------------------------------------------
(* getMailboxByName as a function of the listing and the name *)

ResolveMailbox ==
    /\ ~mbResult.called
    /\ mbResult' = [called |-> TRUE, value |-> getMailboxByName(mailboxes, mbInput)]
    /\ UNCHANGED <<mailboxes, mbInput>>
    /\ UNCHANGED sessVars
    /\ UNCHANGED gateVars

InitMailbox ==
    /\ mailboxes \in Listings
    /\ mbInput \in NameInputs
    /\ mbResult = [called |-> FALSE, value |-> NoMailbox]
    /\ client = [exists |-> FALSE, session |-> NoSession]
    /\ pc = [p \in Callers |-> "idle"]
    /\ cur = [p \in Callers |-> NoCall]
    /\ log = <<>>
    /\ nstarted = 0
    /\ sessionFetches = 0
    /\ okFetches = 0
    /\ lastWrite = NoSession
    /\ emails = << >>
    /\ created = << >>
    /\ last = << >>
    /\ prev = << >>
    /\ previewed = {}
    /\ ninv = 0

NextMailbox == ResolveMailbox

SpecMailbox == InitMailbox /\ [][NextMailbox]_vars

----------------------------------------------------------------------------
(* Addresses: index.ts parseAddresses, formatAddress, formatAddressList *)

\* An optional argument that the caller left out (undefined).
Absent == <<"undefined">>
NoName == <<>>

\* A string argument in a condition: undefined and "" are falsy.
truthy(x) == x # Absent /\ x # <<>>

IndexOfComma(s) ==
    IF \E i \in 1..Len(s) : s[i] = ","
    THEN CHOOSE i \in 1..Len(s) : s[i] = "," /\ \A j \in 1..(i - 1) : s[j] # ","
    ELSE 0

RECURSIVE split(_)
\* String.prototype.split(",")
split(s) ==
    IF IndexOfComma(s) = 0
    THEN <<s>>
    ELSE <<SubSeq(s, 1, IndexOfComma(s) - 1)>>
         \o split(SubSeq(s, IndexOfComma(s) + 1, Len(s)))

RECURSIVE trim(_)
\* String.prototype.trim
trim(s) ==
    IF s = <<>> THEN s
    ELSE IF Head(s) = " " THEN trim(Tail(s))
    ELSE IF s[Len(s)] = " " THEN trim(SubSeq(s, 1, Len(s) - 1))
    ELSE s

\* index.ts parseAddresses: s.split(",").map(e => ({name: null, email: e.trim()}))
parseAddresses(s) ==
    LET parts == split(s)
    IN  [i \in 1..Len(parts) |-> [name |-> NoName, email |-> trim(parts[i])]]

\* index.ts formatAddress
formatAddress(addr) ==
    IF addr.name # NoName
    THEN addr.name \o <<" ", "<">> \o addr.email \o <<">">>
    ELSE addr.email

NoneText == <<"(", "n", "o", "n", "e", ")">>

RECURSIVE join(_)
\* Array.prototype.join(", ")
join(parts) ==
    IF parts = <<>> THEN <<>>
    ELSE IF Len(parts) = 1 THEN parts[1]
    ELSE parts[1] \o <<",", " ">> \o join(Tail(parts))

\* An address list that is null or undefined.  The lists the handlers make
\* come from split, which returns at least one part, so no list they make
\* is empty.
NoAddrs == <<>>

\* index.ts formatAddressList
formatAddressList(addrs) ==
    IF addrs = NoAddrs \/ Len(addrs) = 0
    THEN NoneText
    ELSE join([i \in 1..Len(addrs) |-> formatAddress(addrs[i])])

----------------------------------------------------------------------------
(* Emails on the server *)

NoBlob == ""

\* An email whose bodyValues is undefined.
NoBodyValues == << [partId |-> "undefined", value |-> <<>>] >>

\* What the emails of the account say; a field that is null is <<>>.
\* bodyValues lists the entries of the object in key order, textBody the
\* part ids of the text body parts; an attachment without a blob id has the
\* blob id NoBlob.
EmailContent ==
    [ e1 |-> [ from |-> << [name |-> <<"A">>, email |-> <<"a">>] >>,
               replyTo |-> <<>>,
               subject |-> <<"h","i">>,
               messageId |-> <<"C">>,
               references |-> <<"A", "B">>,
               bodyValues |-> << [partId |-> "1", value |-> <<"o", "k">>] >>,
               textBody |-> <<"1">>,
               attachments |-> << [blobId |-> "B1", name |-> "a.txt"],
                                  [blobId |-> NoBlob, name |-> "b.txt"] >>,
               text |-> <<"o", "k">> ],
      e2 |-> [ from |-> << [name |-> NoName, email |-> <<"a">>] >>,
               replyTo |-> << [name |-> NoName, email |-> <<"b">>] >>,
               subject |-> <<"R","E",":"," ","h","i">>,
               messageId |-> <<>>,
               references |-> <<>>,
               bodyValues |-> <<>>,
               textBody |-> <<>>,
               attachments |-> <<>>,
               text |-> <<>> ],
      e3 |-> [ from |-> <<>>,
               replyTo |-> <<>>,
               subject |-> <<>>,
               messageId |-> <<"D">>,
               references |-> <<>>,
               bodyValues |-> << [partId |-> "2", value |-> <<"o", "k">>] >>,
               textBody |-> <<>>,
               attachments |-> << [blobId |-> "B3", name |-> "c.bin"] >>,
               text |-> <<"o", "k">> ] ]

EmailIds == DOMAIN EmailContent
NoEmailId == "e0"
Keywords == {"$seen", "$junk", "$notjunk", "$flagged"}

\* The listing of the account the tools work on.
GateMailboxes ==
    << [id |-> "mb-inbox",   name |-> <<"I","n","b","o","x">>, role |-> <<"i","n","b","o","x">>],
       [id |-> "mb-junk",    name |-> <<"J","u","n","k">>,     role |-> <<"j","u","n","k">>],
       [id |-> "mb-drafts",  name |-> <<"D","r","a","f","t","s">>, role |-> <<"d","r","a","f","t","s">>],
       [id |-> "mb-sent",    name |-> <<"S","e","n","t">>,     role |-> <<"s","e","n","t">>],
       [id |-> "mb-user4",   name |-> <<"S","p","a","m">>,     role |-> NoRole] >>

Identities == << [id |-> "id1", name |-> <<"M","e">>, email |-> <<"m">>] >>

----------------------------------------------------------------------------
(* A tool handler runs from a state of the client and the server to another, *)
(* leaving the HTTP requests it issued in st.calls.  st.err is the message   *)
(* of the Error that was thrown, st.out the text the handler returned; once  *)
(* either is set the handler is over and every later step passes the state   *)
(* on untouched.  st.reply is what the session endpoint answers, should the  *)
(* handler ask.  The verbs of a handler only read until its last request, so *)
(* what a verb learnt from its reads is taken from the state it started in.  *)

NoErr == ""
NoOut == ""
NoId == ""
NoShown == [to |-> <<>>, cc |-> <<>>, bcc |-> <<>>, subject |-> <<>>,
            body |-> <<>>, inReplyTo |-> NoId, rendered |-> FALSE]
NoParams == [to |-> NoAddrs, cc |-> NoAddrs, bcc |-> NoAddrs, subject |-> <<>>,
             textBody |-> <<>>, inReplyTo |-> NoId, references |-> Absent,
             built |-> FALSE]
NoEmail == [id |-> NoEmailId]

halted(st) == st.err # NoErr \/ st.out # NoOut

\* `if (cond) throw new Error(msg)`
throwIf(st, cond, msg) ==
    IF halted(st) THEN st
    ELSE IF cond THEN [st EXCEPT !.err = msg]
    ELSE st

\* `if (cond) return { content: [{ type: "text", text }] }`
returnIf(st, cond, text) ==
    IF halted(st) THEN st
    ELSE IF cond THEN [st EXCEPT !.out = text]
    ELSE st

\* The GET of the session endpoint.
SessionGet == [http |-> "GET", calls |-> <<>>]

\* getClient().getSession() inside a verb
getSession(st) ==
    LET cl == getClient(st.client)
    IN  IF halted(st) THEN st
        ELSE IF sessionCached(cl)
        THEN [st EXCEPT !.client = cl]
        ELSE IF st.reply = NotOk
        THEN [st EXCEPT !.client = cl,
                        !.calls = Append(@, SessionGet),
                        !.err = "Failed to get JMAP session"]
        ELSE [st EXCEPT !.client = storeSession(cl, st.reply),
                        !.calls = Append(@, SessionGet)]

\* JMAPClient.getAccountId
getAccountId(st) ==
    throwIf(getSession(st),
            accountOf(getSession(st).client.session) = NoAccount,
            "No mail account found in session")

\* An error object of the remote end: a type and an optional description.
NoDescription == ""
NoSetError == [type |-> "none", description |-> NoDescription]
SetErrors == { [type |-> "forbidden", description |-> "denied"],
               [type |-> "serverFail", description |-> NoDescription] }

\* `${err.type}${err.description ? ` - ${err.description}` : ""}` after a prefix
failure(prefix, e) ==
    prefix \o e.type
    \o (IF e.description # NoDescription THEN " - " \o e.description ELSE "")

\* What the API endpoint does wrong during one invocation, if anything: the
\* POST it fails (counted from 1 within the invocation), the way it fails it,
\* and the position in the batch that the failure concerns.
\*   http        the POST is answered with a non-2xx status
\*   error       the response entry at pos is ["error", {type, description}]
\*   short       the response array holds only the entries before pos
\*   notCreated  the entry at pos reports the creation as rejected
\*   noId        the entry at pos reports neither a created id nor a rejection
\*   notUpdated  the entry at pos reports the update as rejected
Faults == {"http", "error", "short", "notCreated", "noId", "notUpdated"}
Healthy == [fault |-> "none", at |-> 0, pos |-> 0, error |-> NoSetError]
MaxPosts == 4
MaxBatch == 2
Remotes ==
    {Healthy} \cup
    { [fault |-> f, at |-> n, pos |-> i, error |-> e]
        : f \in Faults, n \in 1..MaxPosts, i \in 1..MaxBatch, e \in SetErrors }

\* The POST about to be made is the one the endpoint fails.
failing(st) ==
    /\ st.remote.fault # "none"
    /\ Cardinality({ i \in 1..Len(st.calls) : st.calls[i].http = "POST" }) + 1
          = st.remote.at

\* The endpoint does not carry out call i of the batch being posted.
refused(st, i) ==
    /\ failing(st)
    /\ \/ st.remote.fault = "http"
       \/ st.remote.fault \in {"error", "notCreated", "notUpdated"}
          /\ st.remote.pos = i

\* The server applies an Email/set update to the email it names.
applyUpdate(stored, id, upd) ==
    IF id \notin DOMAIN stored THEN stored
    ELSE [stored EXCEPT ![id] =
            [mailboxIds |-> IF "mailboxIds" \in DOMAIN upd THEN upd.mailboxIds
                            ELSE @.mailboxIds,
             keywords |-> IF "keywords" \in DOMAIN upd THEN upd.keywords
                          ELSE @.keywords]]

\* The server creates the draft, submits it and applies the update on success.
applySend(stored, batch) ==
    Append(stored,
           [email |-> batch[1].args.create.draft,
            mailboxIds |-> batch[2].args.onSuccessUpdateEmail.mailboxIds,
            keywords |-> batch[1].args.create.draft.keywords
                         \ {batch[2].args.onSuccessUpdateEmail.clearKeyword},
            submitted |-> TRUE])

\* The server creates the draft and does not submit it.
applyDraft(stored, batch) ==
    Append(stored,
           [email |-> batch[1].args.create.draft,
            mailboxIds |-> batch[1].args.create.draft.mailboxIds,
            keywords |-> batch[1].args.create.draft.keywords,
            submitted |-> FALSE])

\* What the API endpoint does with a batch: the emails afterwards.
serverEmails(st, methodCalls) ==
    IF /\ methodCalls[1].name = "Email/set"
       /\ "update" \in DOMAIN methodCalls[1].args
       /\ ~refused(st, 1)
    THEN applyUpdate(st.emails, methodCalls[1].args.update.emailId,
                     methodCalls[1].args.update.patch)
    ELSE st.emails

\* What the API endpoint does with a batch: the emails created and sent.
serverCreated(st, methodCalls) ==
    IF Len(methodCalls) = 2 /\ methodCalls[2].name = "EmailSubmission/set"
    THEN IF refused(st, 1) THEN st.created
         ELSE IF refused(st, 2) THEN applyDraft(st.created, methodCalls)
         ELSE applySend(st.created, methodCalls)
    ELSE st.created

\* The id the server gives to what a call creates.
createdId(c) ==
    IF "create" \notin DOMAIN c.args THEN NoId
    ELSE IF c.name = "Email/set" THEN "M1"
    ELSE "S1"

\* The response entry of a call that the endpoint answers well.
okEntry(c) ==
    [name |-> c.name, created |-> createdId(c), notCreated |-> NoSetError,
     notUpdated |-> NoSetError, error |-> NoSetError]

\* The response entry of the call at the position the fault concerns.
faultyEntry(st, c) ==
    CASE st.remote.fault = "error" ->
            [okEntry(c) EXCEPT !.name = "error", !.created = NoId,
                               !.error = st.remote.error]
      [] st.remote.fault = "notCreated" ->
            [okEntry(c) EXCEPT !.created = NoId, !.notCreated = st.remote.error]
      [] st.remote.fault = "noId" ->
            [okEntry(c) EXCEPT !.created = NoId]
      [] st.remote.fault = "notUpdated" ->
            [okEntry(c) EXCEPT !.notUpdated = st.remote.error]
      [] OTHER -> okEntry(c)

\* result.methodResponses: what the endpoint answers to a batch
methodResponses(st, methodCalls) ==
    IF ~failing(st)
    THEN [i \in 1..Len(methodCalls) |-> okEntry(methodCalls[i])]
    ELSE IF st.remote.fault = "short"
    THEN [i \in 1..(IF st.remote.pos - 1 < Len(methodCalls)
                    THEN st.remote.pos - 1 ELSE Len(methodCalls))
            |-> okEntry(methodCalls[i])]
    ELSE [i \in 1..Len(methodCalls) |->
            IF i = st.remote.pos THEN faultyEntry(st, methodCalls[i])
            ELSE okEntry(methodCalls[i])]

\* A mutation of post: a "#draft" back-reference in call 2 is replaced by the
\* id the client expects before the batch is sent.
postResolving(st, methodCalls) ==
    IF halted(st) THEN st
    ELSE [st EXCEPT
            !.calls = Append(@, [http |-> "POST",
                                 calls |-> IF Len(methodCalls) = 2
                                           THEN [methodCalls EXCEPT
                                                  ![2].args.create.submission.emailId
                                                      = "M1"]
                                           ELSE methodCalls]),
            !.ok = ~(failing(st) /\ st.remote.fault = "http"),
            !.resp = methodResponses(st, methodCalls),
            !.ret = <<>>,
            !.emails = serverEmails(st, methodCalls),
            !.created = serverCreated(st, methodCalls)]

\* JMAPClient.request: `fetch(session.apiUrl, { method: "POST", body:
\* JSON.stringify({ using, methodCalls }) })`, which the API endpoint carries
\* out and answers
post(st, methodCalls) ==
    IF halted(st) THEN st
    ELSE [st EXCEPT
            !.calls = Append(@, [http |-> "POST", calls |-> methodCalls]),
            !.ok = ~(failing(st) /\ st.remote.fault = "http"),
            !.resp = methodResponses(st, methodCalls),
            !.ret = <<>>,
            !.emails = serverEmails(st, methodCalls),
            !.created = serverCreated(st, methodCalls)]

\* JMAPClient.request: `if (!response.ok) throw`
checkOk(st) == throwIf(st, ~st.ok, "JMAP request failed")

\* The first entry of a response that is named "error".
firstError(resp) ==
    resp[CHOOSE i \in 1..Len(resp) :
            /\ resp[i].name = "error"
            /\ \A j \in 1..(i - 1) : resp[j].name # "error"].error

\* A mutation of checkErrors: only the first entry of the response is looked at.
checkErrorsFirstOnly(st) ==
    throwIf(st, Len(st.resp) > 0 /\ st.resp[1].name = "error",
            failure("JMAP error: ", firstError(st.resp)))

\* JMAPClient.request: the loop over result.methodResponses that throws on
\* the first entry named "error"
checkErrors(st) ==
    throwIf(st, \E i \in 1..Len(st.resp) : st.resp[i].name = "error",
            failure("JMAP error: ", firstError(st.resp)))

\* JMAPClient.request: `return result.methodResponses`
returnResponses(st) ==
    IF halted(st) THEN st ELSE [st EXCEPT !.ret = st.resp]

\* JMAPClient.request: the session, then one POST of the batch as given
request(st, methodCalls) ==
    returnResponses(checkErrors(checkOk(post(getSession(st), methodCalls))))

\* JMAPClient.call: `if (!response) throw`, for responses[0]
firstResponse(st, method) ==
    throwIf(st, Len(st.ret) = 0, "No response for method " \o method)

\* JMAPClient.call: a batch of one call with id "0"
call(st, method, args) ==
    firstResponse(request(st, << [name |-> method, args |-> args, id |-> "0"] >>),
                  method)

\* `client.call(method, { accountId, ... })` with the accountId that
\* getAccountId returned to the verb
callForAccount(st, method, args) ==
    IF halted(st) THEN st
    ELSE call(st, method, [args EXCEPT !.accountId = accountOf(st.client.session)])

\* methods.ts listMailboxes; the list it returns is `mailboxes`
listMailboxes(st) ==
    callForAccount(getAccountId(st), "Mailbox/get", [accountId |-> NoAccount])

\* What Email/get answers for one id: the email, or nothing.
emailOf(st, id) ==
    IF id \in DOMAIN st.emails
    THEN [id |-> id, content |-> EmailContent[id],
          mailboxIds |-> st.emails[id].mailboxIds,
          keywords |-> st.emails[id].keywords]
    ELSE NoEmail

\* methods.ts getEmail; the email it returns is emailOf(st, id)
getEmail(st, id) ==
    callForAccount(getAccountId(st), "Email/get",
                   [accountId |-> NoAccount, ids |-> <<id>>])

\* `s.includes(q)` for strings
includes(s, q) ==
    \E i \in 1..(Len(s) - Len(q) + 1) : SubSeq(s, i, i + Len(q) - 1) = q

\* An address list holds an address whose name or email includes q.
addressIncludes(addrs, q) ==
    \E i \in 1..Len(addrs) :
        includes(addrs[i].email, q) \/ includes(addrs[i].name, q)

\* Whether the server finds an email under one condition of a filter; a
\* condition on what the model does not keep (cc, bcc, size, dates,
\* attachments) finds every email.
matchesCondition(email, k, value) ==
    CASE k = "subject" -> includes(email.content.subject, value)
      [] k = "from" -> addressIncludes(email.content.from, value)
      [] k = "body" -> includes(email.content.text, value)
      [] k = "text" -> \/ includes(email.content.subject, value)
                       \/ addressIncludes(email.content.from, value)
                       \/ includes(email.content.text, value)
      [] k = "inMailbox" -> value \in email.mailboxIds
      [] k = "notKeyword" -> value \notin email.keywords
      [] k = "hasKeyword" -> value \in email.keywords
      [] k = "to" -> FALSE
      [] OTHER -> TRUE

\* Whether the server finds an email under a filter: an operator filter with
\* OR finds it under any of its conditions, a flat filter under all its keys.
matches(email, filter) ==
    IF "operator" \in DOMAIN filter
    THEN \E i \in 1..Len(filter.conditions) :
            \A k \in DOMAIN filter.conditions[i] :
                matchesCondition(email, k, filter.conditions[i][k])
    ELSE \A k \in DOMAIN filter : matchesCondition(email, k, filter[k])

\* What Email/query answers: the ids of the emails found, in a fixed order.
queryIds(st, filter) ==
    SelectSeq(<<"e1", "e2", "e3">>,
              LAMBDA id : id \in DOMAIN st.emails
                          /\ matches(emailOf(st, id), filter))

\* The result of a call that did not throw: the ids of queryResult.ids and
\* the emails of getResult.list.
answering(st, ids, list) ==
    IF halted(st) THEN st ELSE [st EXCEPT !.ids = ids, !.list = list]

\* `client.call("Email/query", { accountId, filter, sort, limit })`; the ids
\* it returns are kept for the fetch that follows
emailQuery(st, filter, limit) ==
    IF halted(st) THEN st
    ELSE answering(callForAccount(st, "Email/query",
                                  [accountId |-> NoAccount,
                                   filter |-> filter,
                                   sort |-> << [property |-> "receivedAt",
                                                isAscending |-> FALSE] >>,
                                   limit |-> limit]),
                   queryIds(st, filter), <<>>)

\* A mutation of fetchList: the Email/get is issued for an empty id list too.
fetchListAlways(st) ==
    IF halted(st) THEN st
    ELSE answering(callForAccount(st, "Email/get",
                                  [accountId |-> NoAccount, ids |-> st.ids]),
                   st.ids, st.ids)

\* listEmails and searchEmails: `if (queryResult.ids.length === 0) return []`,
\* otherwise the Email/get of the ids and `return getResult.list`
fetchList(st) ==
    IF halted(st) \/ st.ids = <<>> THEN st
    ELSE answering(callForAccount(st, "Email/get",
                                  [accountId |-> NoAccount, ids |-> st.ids]),
                   st.ids, st.ids)

\* methods.ts listEmails
listEmails(st, mailboxName, limit) ==
    fetchList(
        emailQuery(throwIf(listMailboxes(getAccountId(st)),
                           getMailboxByName(mailboxes, mailboxName) = NoMailbox,
                           "Mailbox not found"),
                   [inMailbox |-> getMailboxByName(mailboxes, mailboxName).id],
                   limit))

\* methods.ts searchEmails, as index.ts imports it from ./jmap/methods.js:
\* `filter: { text: query }`
searchEmailsText(st, query, limit) ==
    fetchList(emailQuery(getAccountId(st), [text |-> query], limit))

\* SearchFilter: the fields a caller leaves out
NoSize == -1
NoFilter ==
    [query |-> Absent, from |-> Absent, to |-> Absent, cc |-> Absent,
     bcc |-> Absent, subject |-> Absent, body |-> Absent, mailbox |-> Absent,
     hasAttachment |-> "undefined", minSize |-> NoSize, maxSize |-> NoSize,
     before |-> Absent, after |-> Absent,
     unread |-> "undefined", flagged |-> "undefined"]

\* searchEmails: `if (typeof filter === "string") filter = { query: filter }`
asFilter(bare, text, filter) ==
    IF bare THEN [NoFilter EXCEPT !.query = text] ELSE filter

\* searchEmails: the OR filter of the general query
orFilter(q) ==
    [operator |-> "OR",
     conditions |-> << [subject |-> q], [from |-> q], [to |-> q], [body |-> q] >>]

\* searchEmails: a date without a time gets midnight UTC
isoDate(d) ==
    IF includes(d, <<"T">>) THEN d
    ELSE d \o <<"T", "0", "0", ":", "0", "0", ":", "0", "0", "Z">>

\* searchEmails: the keys that the `if (filter.x)` lines set in jmapFilter
jmapFilterKeys(f, mailbox) ==
    { k \in {"from", "to", "cc", "bcc", "subject", "body"} : truthy(f[k]) }
    \cup (IF truthy(f.mailbox) /\ mailbox # NoMailbox THEN {"inMailbox"} ELSE {})
    \cup (IF f.hasAttachment = "true" THEN {"hasAttachment"} ELSE {})
    \cup { k \in {"minSize", "maxSize"} : f[k] # NoSize /\ f[k] # 0 }
    \cup { k \in {"before", "after"} : truthy(f[k]) }
    \cup (IF f.unread = "true" THEN {"notKeyword"} ELSE {})
    \cup (IF f.flagged = "true" THEN {"hasKeyword"} ELSE {})

\* searchEmails: jmapFilter
jmapFilter(f, mailbox) ==
    [k \in jmapFilterKeys(f, mailbox) |->
        CASE k = "inMailbox" -> mailbox.id
          [] k = "hasAttachment" -> TRUE
          [] k \in {"before", "after"} -> isoDate(f[k])
          [] k = "notKeyword" -> "$seen"
          [] k = "hasKeyword" -> "$flagged"
          [] OTHER -> f[k]]

\* searchEmails: `if (filter.mailbox) { mailbox = await getMailboxByName(...) }`
resolveIf(st, name) ==
    IF halted(st) \/ ~truthy(name) THEN st ELSE listMailboxes(st)

\* methods.ts searchEmails (part_002), for the filter after asFilter
searchEmails(st, f, limit) ==
    IF truthy(f.query)
    THEN fetchList(emailQuery(getAccountId(st), orFilter(f.query), limit))
    ELSE fetchList(emailQuery(resolveIf(getAccountId(st), f.mailbox),
                              jmapFilter(f, getMailboxByName(mailboxes,
                                                             f.mailbox)),
                              limit))

\* A mutation of moveEmail's update: the target is added to the mailboxes
\* the email is in.
moveUpdateUnion(email, targetMailbox) ==
    [mailboxIds |-> email.mailboxIds \cup {targetMailbox.id}]

\* methods.ts moveEmail, `{ mailboxIds: { [targetMailbox.id]: true } }`
moveUpdate(email, targetMailbox) ==
    [mailboxIds |-> {targetMailbox.id}]

\* methods.ts moveEmail
moveEmail(st, emailId, targetMailboxName) ==
    callForAccount(
        throwIf(getEmail(throwIf(listMailboxes(getAccountId(st)),
                                 getMailboxByName(mailboxes, targetMailboxName)
                                     = NoMailbox,
                                 "Target mailbox not found"),
                         emailId),
                emailOf(st, emailId) = NoEmail,
                "Email not found"),
        "Email/set",
        [accountId |-> NoAccount,
         update |-> [emailId |-> emailId,
                     patch |-> moveUpdate(emailOf(st, emailId),
                                          getMailboxByName(mailboxes,
                                                           targetMailboxName))]])

\* methods.ts setEmailKeywords
setEmailKeywords(st, emailId, keywords) ==
    callForAccount(getAccountId(st), "Email/set",
                   [accountId |-> NoAccount,
                    update |-> [emailId |-> emailId,
                                patch |-> [keywords |-> keywords]]])

\* A mutation of readKeywords: the written set holds $seen alone, or nothing.
readKeywordsAlone(keywords, read) ==
    IF read THEN {"$seen"} ELSE {}

\* methods.ts markAsRead: the keywords read, with $seen set or removed
readKeywords(keywords, read) ==
    IF read THEN keywords \cup {"$seen"} ELSE keywords \ {"$seen"}

\* methods.ts markAsRead
markAsRead(st, emailId, read) ==
    setEmailKeywords(throwIf(getEmail(st, emailId),
                             emailOf(st, emailId) = NoEmail,
                             "Email not found"),
                     emailId,
                     readKeywords(emailOf(st, emailId).keywords, read))

\* A mutation of spamKeywords: $junk is toggled, not set.
spamKeywordsToggle(keywords) ==
    IF "$junk" \in keywords THEN keywords \ {"$junk", "$notjunk"}
    ELSE (keywords \cup {"$junk"}) \ {"$notjunk"}

\* methods.ts markAsSpam: the keywords read, with $junk set and $notjunk removed
spamKeywords(keywords) == (keywords \cup {"$junk"}) \ {"$notjunk"}

\* methods.ts markAsSpam
markAsSpam(st, emailId) ==
    callForAccount(
        throwIf(getEmail(throwIf(listMailboxes(getAccountId(st)),
                                 getMailboxByName(mailboxes, <<"j","u","n","k">>)
                                     = NoMailbox,
                                 "Junk mailbox not found"),
                         emailId),
                emailOf(st, emailId) = NoEmail,
                "Email not found"),
        "Email/set",
        [accountId |-> NoAccount,
         update |-> [emailId |-> emailId,
                     patch |-> [mailboxIds |->
                                    {getMailboxByName(mailboxes,
                                                      <<"j","u","n","k">>).id},
                                keywords |->
                                    spamKeywords(emailOf(st, emailId).keywords)]]])

\* methods.ts getDefaultIdentity (getIdentities, then the first identity)
getDefaultIdentity(st) ==
    throwIf(callForAccount(getAccountId(st), "Identity/get",
                           [accountId |-> NoAccount]),
            Identities = <<>>,
            "No email identity found")

\* `mailboxes.find((m) => m.role === role)`
byRole(list, role) == find(list, { i \in 1..Len(list) : list[i].role = role })

\* A mutation of emailCreate: the draft is created in Drafts and Sent, without
\* the $draft keyword.
emailCreateUnmarked(params, identity, draftsMailbox) ==
    [mailboxIds |-> {draftsMailbox.id, "mb-sent"},
     keywords |-> {},
     from |-> << [name |-> identity.name, email |-> identity.email] >>,
     to |-> params.to,
     cc |-> params.cc,
     bcc |-> params.bcc,
     subject |-> params.subject,
     bodyValue |-> params.textBody,
     inReplyTo |-> IF params.inReplyTo # NoId THEN <<params.inReplyTo>> ELSE <<>>,
     references |-> params.references]

\* methods.ts sendEmail: the draft that call 0 creates; a key the code does
\* not set has the value Absent, and references is set whenever the
\* parameters carry a list
emailCreate(params, identity, draftsMailbox) ==
    [mailboxIds |-> {draftsMailbox.id},
     keywords |-> {"$draft"},
     from |-> << [name |-> identity.name, email |-> identity.email] >>,
     to |-> params.to,
     cc |-> params.cc,
     bcc |-> params.bcc,
     subject |-> params.subject,
     bodyValue |-> params.textBody,
     inReplyTo |-> IF params.inReplyTo # NoId THEN <<params.inReplyTo>> ELSE <<>>,
     references |-> params.references]

\* A mutation of sendBatch: the submission refers to a creation that no call
\* of the batch makes, and both calls carry the id "0".
sendBatchLoose(accountId, params, identity, draftsMailbox, sentMailbox) ==
    << [name |-> "Email/set",
        args |-> [accountId |-> accountId,
                  create |-> [draft |-> emailCreate(params, identity, draftsMailbox)]],
        id |-> "0"],
       [name |-> "EmailSubmission/set",
        args |-> [accountId |-> accountId,
                  create |-> [submission |-> [identityId |-> identity.id,
                                              emailId |-> "#email"]],
                  onSuccessUpdateEmail |->
                      [ref |-> "#submission",
                       mailboxIds |-> {sentMailbox.id},
                       clearKeyword |-> "$draft"]],
        id |-> "0"] >>

\* methods.ts sendEmail: the batch of Email/set and EmailSubmission/set
sendBatch(accountId, params, identity, draftsMailbox, sentMailbox) ==
    << [name |-> "Email/set",
        args |-> [accountId |-> accountId,
                  create |-> [draft |-> emailCreate(params, identity, draftsMailbox)]],
        id |-> "0"],
       [name |-> "EmailSubmission/set",
        args |-> [accountId |-> accountId,
                  create |-> [submission |-> [identityId |-> identity.id,
                                              emailId |-> "#draft"]],
                  onSuccessUpdateEmail |->
                      [ref |-> "#submission",
                       mailboxIds |-> {sentMailbox.id},
                       clearKeyword |-> "$draft"]],
        id |-> "1"] >>

\* methods.ts sendEmail: `client.request(batch)` with the accountId that
\* getAccountId returned
sendRequest(st, params) ==
    IF halted(st) THEN st
    ELSE request(st, sendBatch(accountOf(st.client.session), params,
                               Identities[1],
                               byRole(mailboxes, <<"d","r","a","f","t","s">>),
                               byRole(mailboxes, <<"s","e","n","t">>)))

\* A mutation of sendChecks: the response of the submission is not looked at.
sendChecksDraftOnly(st) ==
    throwIf(
        throwIf(
            throwIf(st, Len(st.ret) = 0, "No response from Email/set"),
            st.ret[1].notCreated # NoSetError,
            failure("Failed to create email: ", st.ret[1].notCreated)),
        st.ret[1].created = NoId,
        "Failed to create email - no ID returned")

\* methods.ts sendEmail: the checks of responses[0] and responses[1]
sendChecks(st) ==
    throwIf(
        throwIf(
            throwIf(
                throwIf(st, Len(st.ret) = 0, "No response from Email/set"),
                st.ret[1].notCreated # NoSetError,
                failure("Failed to create email: ", st.ret[1].notCreated)),
            st.ret[1].created = NoId,
            "Failed to create email - no ID returned"),
        Len(st.ret) >= 2 /\ st.ret[2].notCreated # NoSetError,
        failure("Failed to submit email: ", st.ret[2].notCreated))

\* methods.ts sendEmail: `return emailId`
returnEmailId(st) ==
    IF halted(st) THEN st ELSE [st EXCEPT !.value = st.ret[1].created]

\* methods.ts sendEmail
sendEmail(st, params) ==
    returnEmailId(sendChecks(sendRequest(
        throwIf(listMailboxes(getDefaultIdentity(getAccountId(st))),
                \/ byRole(mailboxes, <<"d","r","a","f","t","s">>) = NoMailbox
                \/ byRole(mailboxes, <<"s","e","n","t">>) = NoMailbox,
                "Could not find Drafts or Sent mailbox"),
        params)))

\* methods.ts updateMaskedEmail: `if (result.notUpdated?.[id]) throw`
maskedChecks(st) ==
    throwIf(st, st.ret[1].notUpdated # NoSetError,
            failure("Failed to update masked email: ", st.ret[1].notUpdated))

\* methods.ts updateMaskedEmail
updateMaskedEmail(st, id, state) ==
    maskedChecks(callForAccount(getAccountId(st), "MaskedEmail/set",
                                [accountId |-> NoAccount,
                                 update |-> [emailId |-> id,
                                             patch |-> [state |-> state]]]))

ReText == <<"r", "e", ":">>

\* methods.ts buildReply: the subject, with "Re: " in front unless it is there
replySubject(subject) ==
    IF startsWith(toLowerCase(subject), ReText)
    THEN subject
    ELSE <<"R", "e", ":", " ">> \o subject

\* A mutation of replyParams: the references are sent as a list even when the
\* original has none.
replyParamsListAlways(original, replyBody) ==
    [to |-> << IF original.content.replyTo # <<>>
               THEN original.content.replyTo[1]
               ELSE original.content.from[1] >>,
     cc |-> NoAddrs,
     bcc |-> NoAddrs,
     subject |-> replySubject(original.content.subject),
     textBody |-> replyBody,
     inReplyTo |-> IF original.content.messageId # <<>>
                   THEN original.content.messageId[1] ELSE NoId,
     references |-> original.content.references
                    \o (IF original.content.messageId # <<>>
                        THEN <<original.content.messageId[1]>> ELSE <<>>),
     built |-> FALSE]

\* methods.ts buildReply: the parameters of the reply to `original`
replyParams(original, replyBody) ==
    LET c == original.content
    IN  [to |-> << IF c.replyTo # <<>> THEN c.replyTo[1] ELSE c.from[1] >>,
         cc |-> NoAddrs,
         bcc |-> NoAddrs,
         subject |-> replySubject(c.subject),
         textBody |-> replyBody,
         inReplyTo |-> IF c.messageId # <<>> THEN c.messageId[1] ELSE NoId,
         references |-> IF c.references = <<>> /\ c.messageId = <<>>
                        THEN Absent
                        ELSE c.references
                             \o (IF c.messageId # <<>> THEN <<c.messageId[1]>>
                                 ELSE <<>>),
         built |-> FALSE]

\* A mutation of buildReply: the from address is not tried when there is no
\* reply-to address.
buildReplyReplyToOnly(st, originalEmailId) ==
    throwIf(throwIf(getEmail(st, originalEmailId),
                    emailOf(st, originalEmailId) = NoEmail,
                    "Original email not found"),
            emailOf(st, originalEmailId).content.replyTo = <<>>,
            "Cannot determine reply address")

\* methods.ts buildReply; the parameters it returns are replyParams
buildReply(st, originalEmailId) ==
    throwIf(throwIf(getEmail(st, originalEmailId),
                    emailOf(st, originalEmailId) = NoEmail,
                    "Original email not found"),
            /\ emailOf(st, originalEmailId).content.replyTo = <<>>
            /\ emailOf(st, originalEmailId).content.from = <<>>,
            "Cannot determine reply address")

FwdText == <<"f", "w", "d", ":">>

\* methods.ts buildForward: the subject, with "Fwd: " in front unless it is
\* there
forwardSubject(subject) ==
    IF startsWith(toLowerCase(subject), FwdText)
    THEN subject
    ELSE <<"F", "w", "d", ":", " ">> \o subject

\* methods.ts buildForward: the text of the original, the value of the text
\* body part if bodyValues holds it, else the first value of bodyValues
originalBodyText(c) ==
    IF c.bodyValues = NoBodyValues THEN <<>>
    ELSE IF /\ c.textBody # <<>>
            /\ \E i \in 1..Len(c.bodyValues) :
                   c.bodyValues[i].partId = c.textBody[1]
    THEN c.bodyValues[CHOOSE i \in 1..Len(c.bodyValues) :
                         c.bodyValues[i].partId = c.textBody[1]].value
    ELSE IF c.bodyValues # <<>> THEN c.bodyValues[1].value
    ELSE <<>>

\* A mutation of forwardParams: the attribution block comes before the note.
forwardParamsBlockFirst(original, forwardBody) ==
    LET c == original.content
    IN  [to |-> NoAddrs,
         cc |-> NoAddrs,
         bcc |-> NoAddrs,
         subject |-> forwardSubject(c.subject),
         textBody |-> <<"\n\n---------- Forwarded message ---------\nFrom: ">>
                      \o (IF c.from # <<>> THEN formatAddress(c.from[1])
                          ELSE <<"u","n","k","n","o","w","n">>)
                      \o <<"\nDate: ", "receivedAt", "\nSubject: ">>
                      \o c.subject \o <<"\n\n">> \o forwardBody
                      \o originalBodyText(c),
         inReplyTo |-> NoId,
         references |-> Absent,
         built |-> FALSE]

\* methods.ts buildForward: the parameters of the forward of `original`; the
\* body is the note, the attribution block and the text of the original
forwardParams(original, forwardBody) ==
    LET c == original.content
    IN  [to |-> NoAddrs,
         cc |-> NoAddrs,
         bcc |-> NoAddrs,
         subject |-> forwardSubject(c.subject),
         textBody |-> forwardBody
                      \o <<"\n\n---------- Forwarded message ---------\nFrom: ">>
                      \o (IF c.from # <<>> THEN formatAddress(c.from[1])
                          ELSE <<"u","n","k","n","o","w","n">>)
                      \o <<"\nDate: ", "receivedAt", "\nSubject: ">>
                      \o c.subject \o <<"\n\n">> \o originalBodyText(c),
         inReplyTo |-> NoId,
         references |-> Absent,
         built |-> FALSE]

\* methods.ts buildForward; the parameters it returns are forwardParams
buildForward(st, originalEmailId) ==
    throwIf(getEmail(st, originalEmailId),
            emailOf(st, originalEmailId) = NoEmail,
            "Original email not found")

----------------------------------------------------------------------------
(* Attachments *)

\* methods.ts getAttachments: the attachments of the email that have a blob id
attachmentsOf(email) ==
    SelectSeq(email.content.attachments, LAMBDA at : at.blobId # NoBlob)

\* methods.ts getAttachments; the list it returns is attachmentsOf
getAttachments(st, emailId) ==
    throwIf(getEmail(st, emailId),
            emailOf(st, emailId) = NoEmail,
            "Email not found")

\* `attachments.find((a) => a.blobId === blobId)` finds an attachment
hasBlob(email, blobId) ==
    \E i \in 1..Len(attachmentsOf(email)) :
        attachmentsOf(email)[i].blobId = blobId

\* client.downloadBlob: a GET of the session's download URL for the account
\* and the blob; it returns the bytes of the blob
downloadBlob(st, blobId) ==
    IF halted(st) THEN st
    ELSE [st EXCEPT !.calls = Append(@, [http |-> "GET", calls |-> <<>>,
                                         blob |-> blobId,
                                         account |-> accountOf(st.client.session)]),
                    !.value = blobId]

\* A mutation of downloadAttachment: the blob is downloaded whether or not
\* the email has it.
downloadAttachmentUnchecked(st, emailId, blobId) ==
    downloadBlob(getAccountId(st), blobId)

\* methods.ts downloadAttachment
downloadAttachment(st, emailId, blobId) ==
    downloadBlob(
        throwIf(getAttachments(getAccountId(st), emailId),
                emailOf(st, emailId) = NoEmail
                    \/ ~hasBlob(emailOf(st, emailId), blobId),
                "Attachment not found"),
        blobId)

----------------------------------------------------------------------------
(* The tool handlers of index.ts.  a is the arguments object of the call.   *)

\* index.ts send_email: what the handler passes to sendEmail
sendParams(a) ==
    [to |-> parseAddresses(a.to),
     cc |-> IF truthy(a.cc) THEN parseAddresses(a.cc) ELSE NoAddrs,
     bcc |-> IF truthy(a.bcc) THEN parseAddresses(a.bcc) ELSE NoAddrs,
     subject |-> a.subject,
     textBody |-> a.body,
     inReplyTo |-> NoId,
     references |-> Absent,
     built |-> TRUE]

\* index.ts reply_to_email: replyParams with cc and bcc added if provided
replyWithCopies(a, original) ==
    [replyParams(original, a.body) EXCEPT
        !.cc = IF truthy(a.cc) THEN parseAddresses(a.cc) ELSE @,
        !.bcc = IF truthy(a.bcc) THEN parseAddresses(a.bcc) ELSE @,
        !.built = TRUE]

\* A mutation of the preview text: the recipients as typed, not as parsed.
previewOfRaw(p, a) ==
    [to |-> IF a.to = Absent THEN formatAddressList(p.to) ELSE a.to,
     cc |-> IF p.cc # NoAddrs THEN a.cc ELSE NoneText,
     bcc |-> IF p.bcc # NoAddrs THEN a.bcc ELSE NoneText,
     subject |-> p.subject,
     body |-> a.body,
     inReplyTo |-> p.inReplyTo,
     rendered |-> TRUE]

\* index.ts send_email and reply_to_email: the fields the preview text shows
\* for the parameters p
previewOf(p, a) ==
    [to |-> formatAddressList(p.to),
     cc |-> IF p.cc # NoAddrs THEN formatAddressList(p.cc) ELSE NoneText,
     bcc |-> IF p.bcc # NoAddrs THEN formatAddressList(p.bcc) ELSE NoneText,
     subject |-> p.subject,
     body |-> a.body,
     inReplyTo |-> p.inReplyTo,
     rendered |-> TRUE]

\* `if (action === "preview") return` the preview text
previewIf(st, cond, text, shown) ==
    IF halted(st) THEN st
    ELSE IF cond THEN [st EXCEPT !.out = text, !.shown = shown]
    ELSE st

\* `await sendEmail(params)`: the parameters the handler passes on
passing(st, params) ==
    IF halted(st) THEN st ELSE [st EXCEPT !.params = params]

\* index.ts move_email
move_email(st, a) ==
    returnIf(
        moveEmail(
            returnIf(listMailboxes(returnIf(getEmail(st, a.email_id),
                                            emailOf(st, a.email_id) = NoEmail,
                                            "Email not found")),
                     getMailboxByName(mailboxes, a.target_mailbox) = NoMailbox,
                     "Mailbox not found"),
            a.email_id, a.target_mailbox),
        TRUE, "Moved email")

\* index.ts mark_as_read
mark_as_read(st, a) ==
    returnIf(
        markAsRead(returnIf(getEmail(st, a.email_id),
                            emailOf(st, a.email_id) = NoEmail,
                            "Email not found"),
                   a.email_id,
                   IF a.read = "undefined" THEN TRUE ELSE a.read = "true"),
        TRUE, "Marked as read or unread")

\* A mutation of mark_as_spam: the preview branch does not return.
mark_as_spam_ungated(st, a) ==
    returnIf(
        markAsSpam(returnIf(getEmail(st, a.email_id),
                            emailOf(st, a.email_id) = NoEmail,
                            "Email not found"),
                   a.email_id),
        TRUE, "Marked as spam")

\* A mutation of mark_as_spam: the preview marks the email as read.
mark_as_spam_reading(st, a) ==
    returnIf(
        markAsSpam(
            returnIf(markAsRead(returnIf(getEmail(st, a.email_id),
                                         emailOf(st, a.email_id) = NoEmail,
                                         "Email not found"),
                                a.email_id, a.action = "preview"),
                     a.action = "preview", "SPAM PREVIEW"),
            a.email_id),
        TRUE, "Marked as spam")

\* index.ts mark_as_spam
mark_as_spam(st, a) ==
    returnIf(
        markAsSpam(
            returnIf(returnIf(getEmail(st, a.email_id),
                              emailOf(st, a.email_id) = NoEmail,
                              "Email not found"),
                     a.action = "preview", "SPAM PREVIEW"),
            a.email_id),
        TRUE, "Marked as spam")

\* index.ts send_email
send_email(st, a) ==
    returnIf(
        sendEmail(passing(previewIf(st, a.action = "preview", "EMAIL PREVIEW",
                                    previewOf(sendParams(a), a)),
                          sendParams(a)),
                  sendParams(a)),
        TRUE, "Email sent successfully")

\* A mutation of reply_to_email: the preview branch does not return.
reply_to_email_ungated(st, a) ==
    returnIf(
        sendEmail(passing(buildReply(st, a.email_id),
                          replyWithCopies(a, emailOf(st, a.email_id))),
                  replyWithCopies(a, emailOf(st, a.email_id))),
        TRUE, "Reply sent successfully")

\* index.ts reply_to_email
reply_to_email(st, a) ==
    returnIf(
        sendEmail(passing(previewIf(buildReply(st, a.email_id),
                                    a.action = "preview", "REPLY PREVIEW",
                                    previewOf(replyWithCopies(a, emailOf(st, a.email_id)), a)),
                          replyWithCopies(a, emailOf(st, a.email_id))),
                  replyWithCopies(a, emailOf(st, a.email_id))),
        TRUE, "Reply sent successfully")

\* forward_email, the tool the README lists: the parameters of buildForward
\* with the recipients from the arguments
forwardWithRecipients(a, original) ==
    [forwardParams(original, a.body) EXCEPT
        !.to = parseAddresses(a.to),
        !.cc = IF truthy(a.cc) THEN parseAddresses(a.cc) ELSE @,
        !.bcc = IF truthy(a.bcc) THEN parseAddresses(a.bcc) ELSE @,
        !.built = TRUE]

\* forward_email: buildForward, then the same preview or sendEmail as
\* reply_to_email
forward_email(st, a) ==
    returnIf(
        sendEmail(passing(previewIf(buildForward(st, a.email_id),
                                    a.action = "preview", "FORWARD PREVIEW",
                                    previewOf(forwardWithRecipients(a, emailOf(st, a.email_id)), a)),
                          forwardWithRecipients(a, emailOf(st, a.email_id))),
                  forwardWithRecipients(a, emailOf(st, a.email_id))),
        TRUE, "Email forwarded successfully")

\* The state a handler starts from.
Begin(cl, em, cr, reply) ==
    [client |-> cl, emails |-> em, created |-> cr, reply |-> reply,
     calls |-> <<>>, err |-> NoErr, out |-> NoOut,
     shown |-> NoShown, params |-> NoParams,
     remote |-> Healthy, ok |-> TRUE, resp |-> <<>>, ret |-> <<>>,
     value |-> NoId, ids |-> <<>>, list |-> <<>>]

\* The server dispatches the call a to the handler of a.tool.
Run(a, cl, em, cr, reply) ==
    CASE a.tool = "move_email" -> move_email(Begin(cl, em, cr, reply), a)
      [] a.tool = "mark_as_read" -> mark_as_read(Begin(cl, em, cr, reply), a)
      [] a.tool = "mark_as_spam" -> mark_as_spam(Begin(cl, em, cr, reply), a)
      [] a.tool = "send_email" -> send_email(Begin(cl, em, cr, reply), a)
      [] a.tool = "reply_to_email" -> reply_to_email(Begin(cl, em, cr, reply), a)
      [] a.tool = "forward_email" -> forward_email(Begin(cl, em, cr, reply), a)

----------------------------------------------------------------------------
(* Tool invocations, one at a time (the server handles one request at a time *)
(* over stdio and each handler runs to its return).                          *)

MaxInvocations == 2
MaxToLen == 3
MaxCcLen == 2

NoAction == "undefined"

NoInv == [tool |-> "none", action |-> NoAction, email_id |-> NoEmailId,
          target_mailbox |-> Absent, read |-> "undefined", to |-> Absent,
          subject |-> Absent, body |-> Absent, cc |-> Absent, bcc |-> Absent]

\* The emails of the account when the server starts.
StartEmails ==
    { [e \in EmailIds |->
         IF e = "e1" THEN [mailboxIds |-> m, keywords |-> {"$notjunk"}]
         ELSE IF e = "e2" THEN [mailboxIds |-> {"mb-inbox"}, keywords |-> {"$seen"}]
         ELSE [mailboxIds |-> {"mb-junk"}, keywords |-> {"$junk"}]]
      : m \in {{"mb-inbox"}, {"mb-inbox", "mb-user4"}} }

NoRun == [inv |-> NoInv, calls |-> <<>>, err |-> NoErr, out |-> NoOut,
          shown |-> NoShown, params |-> NoParams, hadPreview |-> FALSE,
          was |-> <<>>, sent |-> 0]

\* The strings over chars of length at most n.
Strings(chars, n) == UNION { [1..k -> chars] : k \in 0..n }

\* The calls the model makes of the tools.
GateInvocations ==
    { [NoInv EXCEPT !.tool = "move_email", !.email_id = e, !.target_mailbox = t]
        : e \in {"e1", NoEmailId},
          t \in {<<"j","u","n","k">>, <<"S","p","a","m">>, <<"x">>} }
    \cup
    { [NoInv EXCEPT !.tool = "mark_as_read", !.email_id = e, !.read = r]
        : e \in {"e1", NoEmailId}, r \in {"undefined", "false"} }
    \cup
    { [NoInv EXCEPT !.tool = "mark_as_spam", !.action = ac, !.email_id = e]
        : ac \in {"preview", "confirm"}, e \in {"e1", NoEmailId} }
    \cup
    { [NoInv EXCEPT !.tool = "send_email", !.action = ac, !.to = <<"a">>,
                    !.subject = <<"h","i">>, !.body = <<"y","o">>, !.cc = c]
        : ac \in {"preview", "confirm"}, c \in {Absent, <<"b">>} }
    \cup
    { [NoInv EXCEPT !.tool = "reply_to_email", !.action = ac, !.email_id = e,
                    !.body = <<"y","o">>]
        : ac \in {"preview", "confirm"}, e \in EmailIds }
    \cup
    { [NoInv EXCEPT !.tool = "forward_email", !.action = ac, !.email_id = "e1",
                    !.to = <<"a">>, !.body = <<"y","o">>]
        : ac \in {"preview", "confirm"} }

\* Previews of send_email and reply_to_email over every recipient string.
RichPreviews ==
    { [NoInv EXCEPT !.tool = "send_email", !.action = "preview", !.to = t,
                    !.subject = sj, !.body = <<"y","o">>, !.cc = c, !.bcc = b]
        : t \in Strings({"a", ",", " "}, MaxToLen),
          sj \in {<<>>, <<"h","i">>},
          c \in Strings({"b", ",", " "}, MaxCcLen) \cup {Absent},
          b \in {Absent, <<"c">>} }
    \cup
    { [NoInv EXCEPT !.tool = "reply_to_email", !.action = "preview",
                    !.email_id = e, !.body = <<"y","o">>, !.cc = c, !.bcc = b]
        : e \in EmailIds,
          c \in Strings({"b", ",", " "}, MaxCcLen) \cup {Absent},
          b \in {Absent, <<"c">>} }

\* The server handles the tool call a; reply is what the session endpoint
\* answers if the handler fetches the session.
Invoke(a, reply) ==
    /\ ninv < MaxInvocations
    /\ \E s \in {Run(a, client, emails, created, reply)} :
           /\ client' = s.client
           /\ emails' = s.emails
           /\ created' = s.created
           /\ last' = [inv |-> a, calls |-> s.calls, err |-> s.err,
                       out |-> s.out, shown |-> s.shown, params |-> s.params,
                       hadPreview |-> a.tool \in previewed,
                       was |-> emails,
                       sent |-> Len(s.created) - Len(created)]
    /\ prev' = last
    /\ previewed' = IF a.action = "preview" THEN previewed \cup {a.tool}
                    ELSE previewed
    /\ ninv' = ninv + 1
    /\ UNCHANGED <<pc, cur, log, nstarted, sessionFetches, okFetches, lastWrite>>
    /\ UNCHANGED mbVars

InvokeTool == \E a \in GateInvocations, r \in SessionReplies : Invoke(a, r)

\* The caller asks for a preview.
PreviewRich ==
    /\ ninv = 0
    /\ \E a \in RichPreviews, r \in SessionReplies : Invoke(a, r)

\* The caller confirms what it previewed, with the same arguments.
ConfirmSame ==
    /\ last.inv.action = "preview"
    /\ \E r \in SessionReplies : Invoke([last.inv EXCEPT !.action = "confirm"], r)

InitGate ==
    /\ mailboxes = GateMailboxes
    /\ mbInput = <<>>
    /\ mbResult = [called |-> FALSE, value |-> NoMailbox]
    /\ emails \in StartEmails
    /\ created = <<>>
    /\ last = NoRun
    /\ prev = NoRun
    /\ previewed = {}
    /\ ninv = 0
    /\ client = [exists |-> FALSE, session |-> NoSession]
    /\ pc = [p \in Callers |-> "idle"]
    /\ cur = [p \in Callers |-> NoCall]
    /\ log = <<>>
    /\ nstarted = 0
    /\ sessionFetches = 0
    /\ okFetches = 0
    /\ lastWrite = NoSession

NextGate == InvokeTool

NextPreview == PreviewRich \/ ConfirmSame

\* The tool calls made before the state from which a confirm with and without
\* a preview are compared.
MaxPriorInvocations == 1

InvokeBefore ==
    /\ ninv < MaxPriorInvocations
    /\ \E a \in GateInvocations, r \in SessionReplies : Invoke(a, r)

NextStateless == InvokeBefore

\* The email e1 with any keywords, in the inbox, in Junk already, or in two
\* mailboxes.
InitSpam ==
    /\ mailboxes = GateMailboxes
    /\ mbInput = <<>>
    /\ mbResult = [called |-> FALSE, value |-> NoMailbox]
    /\ emails \in { [e1 |-> [mailboxIds |-> mb, keywords |-> k],
                     e2 |-> [mailboxIds |-> {"mb-inbox"}, keywords |-> {"$seen"}],
                     e3 |-> [mailboxIds |-> {"mb-junk"}, keywords |-> {"$junk"}]]
                    : mb \in {{"mb-inbox"}, {"mb-junk"}, {"mb-inbox", "mb-user4"}},
                      k \in SUBSET Keywords }
    /\ created = <<>>
    /\ last = NoRun
    /\ prev = NoRun
    /\ previewed = {}
    /\ ninv = 0
    /\ client = [exists |-> FALSE, session |-> NoSession]
    /\ pc = [p \in Callers |-> "idle"]
    /\ cur = [p \in Callers |-> NoCall]
    /\ log = <<>>
    /\ nstarted = 0
    /\ sessionFetches = 0
    /\ okFetches = 0
    /\ lastWrite = NoSession

\* mark_as_spam is confirmed for e1, once more.
MarkSpamAgain ==
    /\ ninv < MaxInvocations
    /\ \E r \in SessionReplies :
           Invoke([NoInv EXCEPT !.tool = "mark_as_spam", !.action = "confirm",
                                !.email_id = "e1"], r)

NextSpam == MarkSpamAgain

\* markAsSpam, called again and again for the same email.
SpecSpam == InitSpam /\ [][NextSpam]_vars

\* Two verbs on e1 that overlap: caller v1 runs markAsRead(e1, true), caller
\* v2 runs markAsSpam(e1).  Each verb is cut at its awaits into the answer of
\* its Email/get, which hands it the keywords, and its Email/set.
VerbOf == [v1 |-> "markAsRead", v2 |-> "markAsSpam"]

\* The patch a verb writes after it read the keywords kw.
patchOf(verb, kw) ==
    IF verb = "markAsRead"
    THEN [keywords |-> readKeywords(kw, TRUE)]
    ELSE [mailboxIds |-> {getMailboxByName(mailboxes, <<"j","u","n","k">>).id},
          keywords |-> spamKeywords(kw)]

\* getEmail of caller p returns: the verb holds the email as it is now.
EmailRead(p) ==
    /\ pc[p] = "idle"
    /\ pc' = [pc EXCEPT ![p] = "read"]
    /\ cur' = [cur EXCEPT ![p] = [kind |-> VerbOf[p],
                                  keywords |-> emails["e1"].keywords]]
    /\ UNCHANGED <<client, log, nstarted, sessionFetches, okFetches, lastWrite,
                   mailboxes, mbInput, mbResult, emails, created, last, prev,
                   previewed, ninv>>

\* The Email/set of caller p is carried out by the endpoint.
EmailWritten(p) ==
    /\ pc[p] = "read"
    /\ pc' = [pc EXCEPT ![p] = "done"]
    /\ emails' = applyUpdate(emails, "e1", patchOf(VerbOf[p], cur[p].keywords))
    /\ log' = Append(log, p)
    /\ UNCHANGED <<client, cur, nstarted, sessionFetches, okFetches, lastWrite,
                   mailboxes, mbInput, mbResult, created, last, prev,
                   previewed, ninv>>

NextOverlap == \E p \in Callers : EmailRead(p) \/ EmailWritten(p)

\* markAsRead and markAsSpam for the same email, in every interleaving.
SpecOverlap == InitSpam /\ [][NextOverlap]_vars

\* The originals buildForward is given: subjects with and without the prefix
\* in either case, senders with and without a name, body values with and
\* without the designated text part.
Originals ==
    { [from |-> f, subject |-> sub, bodyValues |-> bv, textBody |-> tb]
        : f \in { <<>>, << [name |-> <<"A">>, email |-> <<"a">>] >>,
                  << [name |-> NoName, email |-> <<"a">>] >> },
          sub \in { <<>>, <<"h","i">>, <<"F","w","d",":"," ","h","i">>,
                    <<"F","W","D",":","h","i">>, <<"f","w","d",":">>,
                    <<"F","w",":"," ","h","i">> },
          bv \in { NoBodyValues, <<>>,
                   << [partId |-> "1", value |-> <<"o","k">>] >>,
                   << [partId |-> "1", value |-> <<>>],
                      [partId |-> "2", value |-> <<"n","o">>] >>,
                   << [partId |-> "2", value |-> <<"n","o">>],
                      [partId |-> "1", value |-> <<"o","k">>] >> },
          tb \in { <<>>, <<"1">>, <<"3">> } }

\* The forwarding notes the caller supplies.
Notes == { <<>>, <<"y","o">> }

\* buildForward is called for an original that getEmail found.
CallBuildForward ==
    /\ ninv = 0
    /\ \E c \in Originals, note \in Notes :
           last' = [original |-> c, forwardBody |-> note,
                    params |-> forwardParams([content |-> c], note)]
    /\ ninv' = 1
    /\ UNCHANGED <<client, pc, cur, log, nstarted, sessionFetches, okFetches,
                   lastWrite, mailboxes, mbInput, mbResult, emails, created,
                   prev, previewed>>

NextForward == CallBuildForward

\* buildForward, called once for every original.
SpecForward == InitGate /\ [][NextForward]_vars

\* mark_as_read is called for e1 with either flag, once more.
MarkReadAgain ==
    /\ ninv < MaxInvocations
    /\ \E r \in SessionReplies, flag \in {"true", "false", "undefined"} :
           Invoke([NoInv EXCEPT !.tool = "mark_as_read", !.email_id = "e1",
                                !.read = flag], r)

NextRead == MarkReadAgain

\* markAsRead, called again and again for the same email.
SpecRead == InitSpam /\ [][NextRead]_vars

----------------------------------------------------------------------------
(* One call of a verb of methods.ts, against an API endpoint that may fail   *)
(* one of the POSTs of the call.                                             *)

\* A verb starts: the handler state with the endpoint's behaviour.
BeginWith(cl, em, cr, reply, remote) ==
    [Begin(cl, em, cr, reply) EXCEPT !.remote = remote]

NoVerb == [verb |-> "none", emailId |-> NoEmailId, mailbox |-> Absent,
           read |-> FALSE, params |-> NoParams, state |-> "none",
           bare |-> FALSE, text |-> Absent, filter |-> NoFilter,
           blobId |-> NoBlob]

\* Parameters of a plain message to one recipient.
PlainParams ==
    [NoParams EXCEPT !.to = << [name |-> NoName, email |-> <<"a">>] >>,
                     !.subject = <<"h", "i">>,
                     !.textBody = <<"y", "o">>,
                     !.built = TRUE]

\* `limit = 25`
DefaultLimit == 25

\* The call v of a verb, carried out from the state st.
RunVerb(v, st) ==
    CASE v.verb = "moveEmail" -> moveEmail(st, v.emailId, v.mailbox)
      [] v.verb = "markAsRead" -> markAsRead(st, v.emailId, v.read)
      [] v.verb = "markAsSpam" -> markAsSpam(st, v.emailId)
      [] v.verb = "sendEmail" -> sendEmail(passing(st, v.params), v.params)
      [] v.verb = "updateMaskedEmail" -> updateMaskedEmail(st, v.emailId, v.state)
      [] v.verb = "listEmails" -> listEmails(st, v.mailbox, DefaultLimit)
      [] v.verb = "searchEmailsText" -> searchEmailsText(st, v.text, DefaultLimit)
      [] v.verb = "downloadAttachment" ->
            downloadAttachment(st, v.emailId, v.blobId)
      [] v.verb = "searchEmails" ->
            searchEmails(st, asFilter(v.bare, v.text, v.filter), DefaultLimit)

\* The verb call v runs to its end: it returns or throws.
Verb(v, reply, remote) ==
    /\ ninv = 0
    /\ \E s \in {RunVerb(v, BeginWith(client, emails, created, reply, remote))} :
           /\ client' = s.client
           /\ emails' = s.emails
           /\ created' = s.created
           /\ last' = [inv |-> v, calls |-> s.calls, err |-> s.err,
                       value |-> s.value, resp |-> s.resp, ret |-> s.ret,
                       remote |-> remote, params |-> s.params,
                       ids |-> s.ids, list |-> s.list,
                       was |-> emails,
                       sent |-> Len(s.created) - Len(created)]
    /\ prev' = last
    /\ ninv' = 1
    /\ UNCHANGED previewed
    /\ UNCHANGED <<pc, cur, log, nstarted, sessionFetches, okFetches, lastWrite>>
    /\ UNCHANGED mbVars

CallMoveEmail ==
    \E e \in {"e1", NoEmailId}, t \in {<<"j","u","n","k">>, <<"x">>},
       r \in SessionReplies, rem \in Remotes :
        Verb([NoVerb EXCEPT !.verb = "moveEmail", !.emailId = e, !.mailbox = t],
             r, rem)

CallMarkAsRead ==
    \E e \in {"e1", NoEmailId}, b \in BOOLEAN,
       r \in SessionReplies, rem \in Remotes :
        Verb([NoVerb EXCEPT !.verb = "markAsRead", !.emailId = e, !.read = b],
             r, rem)

CallMarkAsSpam ==
    \E e \in {"e1", NoEmailId}, r \in SessionReplies, rem \in Remotes :
        Verb([NoVerb EXCEPT !.verb = "markAsSpam", !.emailId = e], r, rem)

CallSendEmail ==
    \E r \in SessionReplies, rem \in Remotes :
        Verb([NoVerb EXCEPT !.verb = "sendEmail", !.params = PlainParams],
             r, rem)

CallUpdateMaskedEmail ==
    \E state \in {"enabled", "disabled", "deleted"},
       r \in SessionReplies, rem \in Remotes :
        Verb([NoVerb EXCEPT !.verb = "updateMaskedEmail", !.emailId = "me1",
                            !.state = state], r, rem)

\* The mailboxes of the account: all of them, or without Junk, or without
\* Drafts.
WithoutRole(list, role) ==
    SelectSeq(list, LAMBDA mb : mb.role # role)

InitRemote ==
    /\ mailboxes \in {GateMailboxes,
                      WithoutRole(GateMailboxes, <<"j","u","n","k">>),
                      WithoutRole(GateMailboxes, <<"d","r","a","f","t","s">>)}
    /\ mbInput = <<>>
    /\ mbResult = [called |-> FALSE, value |-> NoMailbox]
    /\ emails \in StartEmails
    /\ created = <<>>
    /\ last = NoRun
    /\ prev = NoRun
    /\ previewed = {}
    /\ ninv = 0
    /\ client \in {[exists |-> FALSE, session |-> NoSession],
                   [exists |-> TRUE,
                    session |-> [state |-> "s1", mailAccount |-> "u1"]]}
    /\ pc = [p \in Callers |-> "idle"]
    /\ cur = [p \in Callers |-> NoCall]
    /\ log = <<>>
    /\ nstarted = 0
    /\ sessionFetches = 0
    /\ okFetches = 0
    /\ lastWrite = NoSession

NextRemote ==
    \/ CallMoveEmail
    \/ CallMarkAsRead
    \/ CallMarkAsSpam
    \/ CallSendEmail
    \/ CallUpdateMaskedEmail

\* One verb call from a state the server can be in.
SpecRemote == InitRemote /\ [][NextRemote]_vars

\* The blob ids a caller asks for: attachments of e1 and of e3, a blob no
\* email has, and the empty id.
BlobIds == {"B1", "B3", "B9", NoBlob}

CallDownloadAttachment ==
    \E e \in EmailIds \cup {NoEmailId}, b \in BlobIds,
       r \in SessionReplies, rem \in Remotes :
        Verb([NoVerb EXCEPT !.verb = "downloadAttachment", !.emailId = e,
                            !.blobId = b], r, rem)

NextDownload == CallDownloadAttachment

\* One downloadAttachment from a state the server can be in.
SpecDownload == InitRemote /\ [][NextDownload]_vars

\* The failures of the endpoint that the calls of list and search meet.
QueryRemotes ==
    {Healthy} \cup
    { rem \in Remotes :
        /\ rem.fault \in {"http", "error", "short"}
        /\ rem.pos = 1
        /\ rem.error.description # NoDescription }

\* The structured filters that callers pass: from and subject or not, and at
\* most one of the other fields.
ObjectFilters ==
    { [g EXCEPT !.from = a, !.subject = b]
        : a \in {Absent, <<"a">>}, b \in {Absent, <<"h">>},
          g \in { NoFilter,
                  [NoFilter EXCEPT !.query = <<"o">>],
                  [NoFilter EXCEPT !.query = <<>>],
                  [NoFilter EXCEPT !.to = <<"c">>],
                  [NoFilter EXCEPT !.body = <<"k">>],
                  [NoFilter EXCEPT !.mailbox = <<"j","u","n","k">>],
                  [NoFilter EXCEPT !.mailbox = <<"x">>],
                  [NoFilter EXCEPT !.hasAttachment = "true"],
                  [NoFilter EXCEPT !.hasAttachment = "false"],
                  [NoFilter EXCEPT !.minSize = 0],
                  [NoFilter EXCEPT !.maxSize = 5],
                  [NoFilter EXCEPT !.before = <<"2","0","2","4">>],
                  [NoFilter EXCEPT !.after = <<"2","0","2","4","T","0","1">>],
                  [NoFilter EXCEPT !.unread = "true"],
                  [NoFilter EXCEPT !.flagged = "true"] } }

CallListEmails ==
    \E t \in {<<"j","u","n","k">>, <<"I","n","b","o","x">>, <<"x">>},
       r \in SessionReplies, rem \in QueryRemotes :
        Verb([NoVerb EXCEPT !.verb = "listEmails", !.mailbox = t], r, rem)

\* searchEmails with a bare string.
CallSearchBare ==
    \E q \in {<<>>, <<"o">>, <<"h","i">>, <<"z">>},
       r \in SessionReplies, rem \in QueryRemotes :
        Verb([NoVerb EXCEPT !.verb = "searchEmails", !.bare = TRUE, !.text = q],
             r, rem)

\* searchEmails with a structured filter.
CallSearchFilter ==
    \E f \in ObjectFilters, r \in SessionReplies, rem \in QueryRemotes :
        Verb([NoVerb EXCEPT !.verb = "searchEmails", !.filter = f], r, rem)

\* searchEmails of src/jmap/methods.ts, as the search_emails tool calls it.
CallSearchText ==
    \E q \in {<<>>, <<"o">>, <<"h","i">>, <<"z">>},
       r \in SessionReplies, rem \in QueryRemotes :
        Verb([NoVerb EXCEPT !.verb = "searchEmailsText", !.bare = TRUE,
                            !.text = q], r, rem)

\* The verbs that resolve a mailbox and update, among the calls of a query.
CallMoveOrSpam ==
    \E verb \in {"moveEmail", "markAsSpam"},
       t \in {<<"j","u","n","k">>, <<"x">>},
       r \in SessionReplies, rem \in QueryRemotes :
        Verb([NoVerb EXCEPT !.verb = verb, !.emailId = "e1", !.mailbox = t],
             r, rem)

NextQuery ==
    \/ CallListEmails
    \/ CallSearchBare
    \/ CallSearchFilter
    \/ CallSearchText
    \/ CallMoveOrSpam

\* One call of list, search, move or markSpam from a state the server can be
\* in.
SpecQuery == InitRemote /\ [][NextQuery]_vars

\* Tool calls up to the state from which a confirm is run with and without a
\* preview before it.
SpecStateless == InitGate /\ [][NextStateless]_vars

\* Any sequence of tool calls.
SpecGate == InitGate /\ [][NextGate]_vars

\* A preview, then the confirm with the same arguments.
SpecPreview == InitGate /\ [][NextPreview]_vars

----------------------------------------------------------------------------
(* Claims *)

GatedTools == {"send_email", "reply_to_email", "forward_email", "mark_as_spam"}
SendingTools == {"send_email", "reply_to_email"}
ReadMethods == {"Mailbox/get", "Email/get", "Identity/get"}
WriteMethods == {"Email/set", "EmailSubmission/set"}

\* The JMAP methods a sequence of HTTP requests called.
MethodsIn(calls) ==
    UNION { { calls[i].calls[j].name : j \in 1..Len(calls[i].calls) }
            : i \in 1..Len(calls) }

IsPost(c) == c.http = "POST"

\* The POSTs among a sequence of HTTP requests, in order.
Posts(calls) == SelectSeq(calls, IsPost)

\* C1: an invocation of a gated tool with action=preview issues no write
\* call (no Email/set, no EmailSubmission/set) whatever its arguments and
\* whatever the session endpoint answers; it issues only the session GET and
\* the read methods, and leaves the emails of the account as they were.
C1_PreviewIssuesNoWrite ==
    (last.inv.tool \in GatedTools /\ last.inv.action = "preview") =>
        /\ MethodsIn(last.calls) \cap WriteMethods = {}
        /\ MethodsIn(last.calls) \subseteq ReadMethods
        /\ emails = last.was
        /\ last.sent = 0

\* C1 witness: a preview of reply_to_email read the original email and
\* returned the preview text.
C1_Witness ==
    /\ last.inv.tool = "reply_to_email"
    /\ last.inv.action = "preview"
    /\ last.out = "REPLY PREVIEW"
    /\ "Email/get" \in MethodsIn(last.calls)

\* C2: when a preview of send_email or reply_to_email is followed by the
\* confirm with the same arguments, the remote state being the same, the to,
\* cc, bcc the preview showed are the rendition of the to, cc, bcc the confirm
\* passed to sendEmail, and the subject and body shown are the subject and
\* textBody passed.
C2_PreviewShowsWhatConfirmSends ==
    ( /\ prev.inv.action = "preview"
      /\ prev.inv.tool \in SendingTools
      /\ last.inv = [prev.inv EXCEPT !.action = "confirm"]
      /\ last.was = prev.was
      /\ prev.shown.rendered
      /\ last.params.built ) =>
        /\ prev.shown.to = formatAddressList(last.params.to)
        /\ prev.shown.cc = formatAddressList(last.params.cc)
        /\ prev.shown.bcc = formatAddressList(last.params.bcc)
        /\ prev.shown.subject = last.params.subject
        /\ prev.shown.body = last.params.textBody

\* C2 witness: send_email was previewed and confirmed with two recipients
\* and a cc, one recipient typed with a space that parsing trimmed, and the
\* email was submitted.
C2_Witness ==
    /\ prev.inv.action = "preview"
    /\ prev.inv.tool = "send_email"
    /\ last.inv = [prev.inv EXCEPT !.action = "confirm"]
    /\ prev.shown.rendered
    /\ last.params.built
    /\ last.sent = 1
    /\ Len(last.params.to) = 2
    /\ last.inv.to[Len(last.inv.to)] = " "
    /\ last.params.cc # NoAddrs

\* C3 as stated: send_email or reply_to_email issues an EmailSubmission/set
\* only if that tool was invoked with action=preview earlier in the sequence.
C3_SubmitOnlyAfterPreview ==
    ( /\ last.inv.tool \in SendingTools
      /\ "EmailSubmission/set" \in MethodsIn(last.calls) ) => last.hadPreview

\* C4 as stated: a tool issues a write call only when it is invoked with
\* action=confirm.
C4_WriteOnlyOnConfirm ==
    MethodsIn(last.calls) \cap WriteMethods # {} => last.inv.action = "confirm"

\* C4 as amended: mark_as_spam, send_email and reply_to_email issue a write
\* call only when invoked with action=confirm; move_email and mark_as_read
\* take no action argument and write on every invocation that finds the
\* email (and the mailbox).
C4_GatedWriteOnlyOnConfirm ==
    /\ ( /\ last.inv.tool \in {"mark_as_spam", "send_email", "reply_to_email"}
         /\ MethodsIn(last.calls) \cap WriteMethods # {} )
           => last.inv.action = "confirm"
    /\ ( /\ last.inv.tool \in {"move_email", "mark_as_read"}
         /\ last.out \in {"Moved email", "Marked as read or unread"} )
           => "Email/set" \in MethodsIn(last.calls)

\* C4 witness: mark_as_spam wrote on a confirm, after move_email had written
\* without any action argument.
C4_Witness ==
    /\ last.inv.tool = "mark_as_spam"
    /\ last.inv.action = "confirm"
    /\ "Email/set" \in MethodsIn(last.calls)
    /\ prev.inv.tool = "move_email"
    /\ prev.inv.action = NoAction
    /\ "Email/set" \in MethodsIn(prev.calls)

\* The previews and the confirms of the gated tools of index.ts.
CodeGatedTools == {"send_email", "reply_to_email", "mark_as_spam"}
GatePreviews ==
    { a \in GateInvocations : a.tool \in CodeGatedTools /\ a.action = "preview" }
GateConfirms ==
    { a \in GateInvocations : a.tool \in CodeGatedTools /\ a.action = "confirm" }

\* The state a preview p leaves when the session endpoint answers r.
AfterPreview(p, r) == Run(p, client, emails, created, r)

\* What a confirm c does now.
ConfirmNow(c, r) == Run(c, client, emails, created, r)

\* What a confirm c does from the state sp that a preview left.
ConfirmAfter(sp, c, r) == Run(c, sp.client, sp.emails, sp.created, r)

\* A preview that left sp changed the client at most by filling the empty
\* session cache.
PreviewKeepsClient(sp, r) ==
    \/ sp.client.session = client.session
    \/ /\ client.session = NoSession
       /\ sp.client.session = r

\* C5 as stated: from any state, the remote calls of a confirm are the same
\* after a preview as without it, and a preview changes no client state but
\* the session cache.
C5_SameCallsWithOrWithoutPreview ==
    \A r \in SessionReplies, p \in GatePreviews :
      \A sp \in {AfterPreview(p, r)} :
        /\ PreviewKeepsClient(sp, r)
        /\ \A c \in GateConfirms :
             ConfirmAfter(sp, c, r).calls = ConfirmNow(c, r).calls

\* C5 as amended: from any state, the JMAP requests (POSTs) of a confirm, its
\* outcome and what it leaves on the server are the same after a preview as
\* without it; the session GET alone can differ, the confirm issuing it
\* exactly when the session cache is empty when it starts; and a preview
\* changes no client state but the session cache, which it fills only if it
\* was empty.
C5_SamePostsWithOrWithoutPreview ==
    \A r \in SessionReplies, p \in GatePreviews :
      \A sp \in {AfterPreview(p, r)} :
        /\ PreviewKeepsClient(sp, r)
        /\ \A c \in GateConfirms :
             \A now \in {ConfirmNow(c, r)}, after \in {ConfirmAfter(sp, c, r)} :
               /\ Posts(after.calls) = Posts(now.calls)
               /\ after.emails = now.emails
               /\ after.created = now.created
               /\ after.err = now.err
               /\ after.out = now.out
               /\ (now.calls # <<>> /\ now.calls[1] = SessionGet)
                    <=> (now.calls # <<>> /\ client.session = NoSession)
               /\ (after.calls # <<>> /\ after.calls[1] = SessionGet)
                    <=> (after.calls # <<>> /\ sp.client.session = NoSession)

\* C5 witness: a reply_to_email preview has fetched the session and filled
\* the cache, and from here a send_email confirm sends its email without the
\* session GET that it issues from the state before that preview.
C5_Witness ==
    /\ last.inv.tool = "reply_to_email" /\ last.inv.action = "preview"
    /\ last.out = "REPLY PREVIEW"
    /\ last.calls[1] = SessionGet
    /\ client.session # NoSession
    /\ \E c \in GateConfirms :
         /\ c.tool = "send_email"
         /\ \A now \in {ConfirmNow(c, client.session)} :
              /\ Len(now.created) = Len(created) + 1
              /\ now.calls[1] # SessionGet
         /\ \A before \in {Run(c, [exists |-> FALSE, session |-> NoSession],
                                 last.was, created, client.session)} :
              /\ before.calls[1] = SessionGet
              /\ Posts(before.calls) = Posts(ConfirmNow(c, client.session).calls)

MinOf(S) == CHOOSE i \in S : \A j \in S : i <= j

C7_MoveWritesOnlyTarget ==
    last.inv.tool = "move_email" =>
        \A i \in 1..Len(last.calls) :
            (IsPost(last.calls[i]) /\ last.calls[i].calls[1].name = "Email/set") =>
                LET upd == last.calls[i].calls[1].args.update
                    target == getMailboxByName(mailboxes, last.inv.target_mailbox)
                IN  /\ target # NoMailbox
                    /\ upd.emailId = last.inv.email_id
                    /\ DOMAIN upd.patch = {"mailboxIds"}
                    /\ upd.patch.mailboxIds = {target.id}
                    /\ Cardinality(upd.patch.mailboxIds) = 1
                    /\ emails[upd.emailId].mailboxIds = {target.id}

\* C7 witness: an email that was in two mailboxes, neither of them the
\* target, was moved.
C7_Witness ==
    /\ last.inv.tool = "move_email"
    /\ last.out = "Moved email"
    /\ "Email/set" \in MethodsIn(last.calls)
    /\ Cardinality(last.was[last.inv.email_id].mailboxIds) = 2
    /\ emails[last.inv.email_id].mailboxIds
         \cap last.was[last.inv.email_id].mailboxIds = {}

\* C8: in sequential use, once the first call has fetched the session with
\* success, one fetch has been performed in total and every call (getSession,
\* getAccountId, request) works with the identical Session value.
C8_OneFetchAfterFirstSuccess ==
    (Len(log) >= 1 /\ log[1].fetched /\ log[1].own # NoSession) =>
        /\ sessionFetches = 1
        /\ \A i \in 1..Len(log) : log[i].ok /\ log[i].sess = log[1].sess
        /\ \A p \in Callers :
             /\ pc[p] # "fetching"
             /\ pc[p] = "posting" => cur[p].sess = log[1].sess

\* C8 witness: getSession was called twice in sequence, the first call
\* fetched with success, the second returned the same value without a fetch.
C8_Witness ==
    /\ Len(log) >= 2
    /\ log[1].kind = "getSession" /\ log[2].kind = "getSession"
    /\ log[1].fetched /\ log[1].own # NoSession
    /\ ~log[2].fetched
    /\ log[2].sess = log[1].sess
    /\ sessionFetches = 1

\* The calls that found the cache empty when they started.
StartedEmpty ==
    { <<"log", i>> : i \in { j \in 1..Len(log) : log[j].startedEmpty } }
    \cup { <<"cur", p>> : p \in { q \in Callers : pc[q] # "idle" /\ cur[q].startedEmpty } }

\* C9 as stated: across every interleaving the session endpoint is fetched
\* with success at most once, and a populated cache is never replaced.
C9_Original ==
    [][ /\ okFetches' <= 1
        /\ client.session # NoSession => client'.session = client.session ]_vars

\* C9 as amended: the session endpoint is fetched only by calls that found the
\* cache empty when they started; a call that starts on a populated cache
\* never fetches, so the successful fetches are at most as many as the calls
\* that started on an empty cache.
C9_FetchOnlyOnEmptyCache ==
    /\ \A p \in Callers : pc[p] = "fetching" => cur[p].startedEmpty
    /\ \A i \in 1..Len(log) : log[i].fetched => log[i].startedEmpty
    /\ okFetches <= Cardinality(StartedEmpty)
    /\ sessionFetches <= Cardinality(StartedEmpty)

\* C9 witness: two calls that both started on the empty cache fetched with
\* success and got different values, and a call that started on the populated
\* cache completed without a fetch.
C9_Witness ==
    /\ okFetches = 2
    /\ \E i, j \in 1..Len(log) :
         /\ i # j
         /\ log[i].own # NoSession /\ log[j].own # NoSession
         /\ log[i].own # log[j].own
    /\ \E k \in 1..Len(log) : ~log[k].startedEmpty /\ ~log[k].fetched

\* C10: when calls race on the empty cache, each receives the Session its own
\* fetch returned, the cache holds the value written last, a call fails only
\* when its own fetch was refused and is never held up by another call, and a
\* call that starts after a successful one has completed performs no fetch.
C10_BenignRace ==
    /\ \A i \in 1..Len(log) :
         /\ (log[i].fetched /\ log[i].own # NoSession) => log[i].sess = log[i].own
         /\ ~log[i].ok => (log[i].fetched /\ log[i].own = NoSession)
         /\ \A j \in 1..Len(log) :
              (log[j].own # NoSession /\ log[i].startAt >= j) => ~log[i].fetched
    /\ \A p \in Callers :
         /\ (pc[p] = "posting" /\ cur[p].fetched) => cur[p].sess = cur[p].own
         /\ pc[p] = "fetching" => \A r \in SessionReplies : ENABLED FetchReply(p, r)
    /\ okFetches > 0 => client.session = lastWrite

\* C10 witness: two calls overlapped on the empty cache, both fetched with
\* success and got different values, the cache holds the value of the one
\* that completed last, and a call that started after both returned that
\* value without a fetch.
C10_Witness ==
    \E i, j, k \in 1..Len(log) :
        /\ i < j /\ j < k
        /\ log[i].fetched /\ log[j].fetched
        /\ log[j].startAt < i
        /\ log[i].own # NoSession /\ log[j].own # NoSession
        /\ log[i].own # log[j].own
        /\ log[i].sess = log[i].own /\ log[j].sess = log[j].own
        /\ log[k].startAt >= j /\ ~log[k].fetched
        /\ log[k].sess = log[j].own
        /\ client.session = log[j].own

----------------------------------------------------------------------------
\* C12: when a reply to an email with references R and messageId [C] is sent,
\* the draft the send creates has references R followed by C and inReplyTo
\* [C]; when the original has neither references nor a messageId, the draft
\* carries no references key at all (not an empty list).
C12_ReplyThreading ==
    (last.inv.tool = "reply_to_email" /\ last.sent = 1) =>
        \A c \in {EmailContent[last.inv.email_id]} :
            /\ (c.references # <<>> /\ c.messageId # <<>>) =>
                   /\ created[Len(created)].email.references
                          = c.references \o <<c.messageId[1]>>
                   /\ created[Len(created)].email.inReplyTo
                          = <<c.messageId[1]>>
            /\ (c.references = <<>> /\ c.messageId = <<>>) =>
                   created[Len(created)].email.references = Absent

\* A reply to e2 (no references, no messageId) and then a reply to e1
\* (references A, B and messageId C) have both been sent.
C12_Witness ==
    /\ Len(created) = 2
    /\ prev.inv.tool = "reply_to_email" /\ prev.inv.email_id = "e2"
    /\ last.inv.tool = "reply_to_email" /\ last.inv.email_id = "e1"
    /\ created[1].email.references = Absent
    /\ created[2].email.references = <<"A", "B", "C">>
    /\ created[2].email.inReplyTo = <<"C">>

----------------------------------------------------------------------------
NoReplyAddress == "Cannot determine reply address"

\* C13 as stated: a reply that fails with "cannot determine reply address"
\* has made no network call.
C13_FailsBeforeAnyNetworkCall ==
    last.err = NoReplyAddress => last.calls = <<>>

\* C13, amended: a reply fails with "cannot determine reply address" exactly
\* when the original was fetched and has neither a reply-to nor a from
\* address; the only method the failed invocation called is the Email/get
\* that fetched the original, so no draft is created and nothing is submitted.
C13_FailsBeforeAnyWrite ==
    /\ last.err = NoReplyAddress =>
           /\ last.inv.tool = "reply_to_email"
           /\ EmailContent[last.inv.email_id].replyTo = <<>>
           /\ EmailContent[last.inv.email_id].from = <<>>
           /\ MethodsIn(last.calls) = {"Email/get"}
           /\ Len(Posts(last.calls)) = 1
           /\ last.sent = 0
           /\ emails = last.was
    /\ ( /\ last.inv.tool = "reply_to_email"
         /\ last.inv.email_id \in DOMAIN last.was
         /\ EmailContent[last.inv.email_id].replyTo = <<>>
         /\ EmailContent[last.inv.email_id].from = <<>>
         /\ "Email/get" \in MethodsIn(last.calls) ) =>
           last.err = NoReplyAddress

\* A confirmed reply to e3, which has no reply-to and no from address, failed
\* after the session GET and the Email/get.
C13_Witness ==
    /\ last.inv.tool = "reply_to_email"
    /\ last.inv.action = "confirm"
    /\ last.inv.email_id = "e3"
    /\ last.err = NoReplyAddress
    /\ Len(last.calls) = 2

----------------------------------------------------------------------------
\* The update that the Email/set of a run wrote (its last POST).
WrittenPatch(run) ==
    Posts(run.calls)[Len(Posts(run.calls))].calls[1].args.update.patch

Marked(run) ==
    /\ run.inv.tool = "mark_as_spam"
    /\ run.inv.action = "confirm"
    /\ run.err = NoErr

\* C14: markAsSpam is idempotent on keywords. Whatever the keywords and the
\* mailboxes of the email before (Junk included), after a markAsSpam the
\* keywords are the ones before with $junk added and $notjunk removed and
\* the email is in Junk only; a further markAsSpam writes the same keyword
\* set and the same single-entry junk mailbox map and changes nothing.
C14_MarkAsSpamIdempotent ==
    Marked(last) =>
        /\ "$junk" \in emails["e1"].keywords
        /\ "$notjunk" \notin emails["e1"].keywords
        /\ emails["e1"].keywords \ {"$junk"}
              = last.was["e1"].keywords \ {"$junk", "$notjunk"}
        /\ emails["e1"].mailboxIds = {"mb-junk"}
        /\ WrittenPatch(last) = [mailboxIds |-> {"mb-junk"},
                                 keywords |-> emails["e1"].keywords]
        /\ Marked(prev) =>
               /\ WrittenPatch(last) = WrittenPatch(prev)
               /\ emails = last.was

\* e1, flagged and marked $notjunk, in two mailboxes, was marked as spam
\* twice.
C14_Witness ==
    /\ Marked(prev) /\ Marked(last)
    /\ prev.was["e1"].keywords = {"$notjunk", "$flagged"}
    /\ prev.was["e1"].mailboxIds = {"mb-inbox", "mb-user4"}
    /\ emails["e1"].keywords = {"$junk", "$flagged"}
    /\ WrittenPatch(last).keywords = {"$junk", "$flagged"}

----------------------------------------------------------------------------
\* The POSTs of a verb call that carry a batch of n calls.
BatchesOf(run, n) ==
    { i \in 1..Len(run.calls) :
        run.calls[i].http = "POST" /\ Len(run.calls[i].calls) = n }

\* C15: the client transmits a batch exactly as built. The one batch of two
\* calls that sendEmail posts is the batch it built from its parameters, the
\* default identity and the Drafts and Sent mailboxes, call for call and
\* argument for argument, with the submission's emailId still the marker
\* "#draft"; and the Email/set that markAsSpam posts carries the update it
\* built, under the account id of the session.
C15_BatchSentAsBuilt ==
    /\ (ninv = 1 /\ last.inv.verb = "sendEmail") =>
          \A i \in BatchesOf(last, 2) :
              /\ last.calls[i].calls
                    = sendBatch(accountOf(client.session), last.inv.params,
                                Identities[1],
                                byRole(mailboxes, <<"d","r","a","f","t","s">>),
                                byRole(mailboxes, <<"s","e","n","t">>))
              /\ last.calls[i].calls[2].args.create.submission.emailId = "#draft"
              /\ last.calls[i].calls[1].id = "0"
              /\ last.calls[i].calls[2].id = "1"
    /\ (ninv = 1 /\ last.inv.verb = "markAsSpam") =>
          \A i \in BatchesOf(last, 1) :
              last.calls[i].calls[1].name = "Email/set" =>
                  last.calls[i].calls[1]
                     = [name |-> "Email/set",
                        args |-> [accountId |-> accountOf(client.session),
                                  update |->
                                      [emailId |-> last.inv.emailId,
                                       patch |->
                                          [mailboxIds |-> {"mb-junk"},
                                           keywords |->
                                              (last.was[last.inv.emailId].keywords
                                                  \cup {"$junk"}) \ {"$notjunk"}]]],
                        id |-> "0"]

\* sendEmail posted its batch, with "#draft" in call 2, and the message was
\* created and submitted.
C15_Witness ==
    /\ ninv = 1
    /\ last.inv.verb = "sendEmail"
    /\ BatchesOf(last, 2) # {}
    /\ \A i \in BatchesOf(last, 2) :
           last.calls[i].calls[2].args.create.submission.emailId = "#draft"
    /\ last.sent = 1
    /\ last.err = NoErr

----------------------------------------------------------------------------
\* The endpoint committed its fault: the verb call made the POST that the
\* endpoint fails, with a batch that has the position the fault concerns.
Faulted(kind) ==
    /\ ninv = 1
    /\ last.remote.fault = kind
    /\ Len(Posts(last.calls)) >= last.remote.at
    /\ last.remote.pos <= Len(Posts(last.calls)[last.remote.at].calls)

\* The message that carries a remote error after a prefix.
Carrying(prefix, e) ==
    IF e.description = NoDescription THEN prefix \o e.type
    ELSE prefix \o e.type \o " - " \o e.description

\* C16: when an entry of a batch's response, at any position, is named
\* "error", request() throws an error that carries the remote type and
\* description and returns nothing, even if the other entries are successful;
\* the verb stops there: it makes no further call and returns no value.
C16_ErrorEntryFailsRequest ==
    Faulted("error") =>
        /\ last.err = Carrying("JMAP error: ", last.remote.error)
        /\ last.ret = <<>>
        /\ last.value = NoId
        /\ Len(Posts(last.calls)) = last.remote.at

\* sendEmail's batch was answered with a created draft in entry 1 and
\* "error" in entry 2, and sendEmail failed with the remote type and
\* description.
C16_Witness ==
    /\ Faulted("error")
    /\ last.inv.verb = "sendEmail"
    /\ last.remote.pos = 2
    /\ Len(last.resp) = 2
    /\ last.resp[1].created = "M1"
    /\ last.resp[2].name = "error"
    /\ last.err = "JMAP error: forbidden - denied"

----------------------------------------------------------------------------
\* The errors that report a call without a response.
MissingResponseErrors ==
    { "No response for method " \o m
        : m \in {"Mailbox/get", "Email/get", "Email/set", "Identity/get",
                 "MaskedEmail/set", "Email/query"} }
    \cup {"No response from Email/set", "No response from EmailSubmission/set"}

\* C17: whenever the response array is shorter than the batch that was sent,
\* the operation fails with a missing-response error; for the single call of
\* call() and for each of the two calls of send's batch.
C17_ShortResponseFails ==
    Faulted("short") => last.err \in MissingResponseErrors

----------------------------------------------------------------------------
\* sendEmail posted its batch and request() returned the responses.
SendAnswered ==
    /\ ninv = 1
    /\ last.inv.verb = "sendEmail"
    /\ BatchesOf(last, 2) # {}
    /\ Len(last.ret) >= 1

\* C18: after send's batch returned without a protocol error, sendEmail
\* returns an email id only if neither the draft creation nor the submission
\* was rejected. If notCreated holds the draft, or notCreated holds the
\* submission, it fails with an error carrying the remote type and
\* description; it fails too when no created draft id is present; otherwise
\* it returns the created draft id.
C18_SendReturnsIdOnlyIfAccepted ==
    SendAnswered =>
        /\ (last.value # NoId) = (last.err = NoErr)
        /\ last.ret[1].notCreated # NoSetError =>
              last.err = Carrying("Failed to create email: ",
                                  last.ret[1].notCreated)
        /\ (last.ret[1].notCreated = NoSetError
            /\ last.ret[1].created = NoId) =>
              last.err = "Failed to create email - no ID returned"
        /\ (/\ last.ret[1].notCreated = NoSetError
            /\ last.ret[1].created # NoId
            /\ Len(last.ret) >= 2
            /\ last.ret[2].notCreated # NoSetError) =>
              last.err = Carrying("Failed to submit email: ",
                                  last.ret[2].notCreated)
        /\ last.value # NoId =>
              /\ last.value = last.ret[1].created
              /\ \A i \in 1..Len(last.ret) : last.ret[i].notCreated = NoSetError

\* The endpoint created the draft and rejected the submission; sendEmail
\* failed with the remote type and description.
C18_Witness ==
    /\ SendAnswered
    /\ last.remote.fault = "notCreated"
    /\ last.ret[1].created = "M1"
    /\ last.ret[2].notCreated = [type |-> "forbidden", description |-> "denied"]
    /\ last.err = "Failed to submit email: forbidden - denied"
    /\ last.value = NoId

----------------------------------------------------------------------------
\* The endpoint rejected the update of a /set call of the verb: the entity is
\* in the response's notUpdated map.
UpdateRejected ==
    /\ Faulted("notUpdated")
    /\ "update" \in DOMAIN
          Posts(last.calls)[last.remote.at].calls[last.remote.pos].args

\* C19: for every verb that updates an entity through a /set call (move,
\* setKeywords/markRead, markSpam, the state update of a disposable address),
\* when the response's notUpdated map contains the entity the verb fails
\* with an error carrying the remote type and description.
C19_RejectedUpdateFails ==
    UpdateRejected =>
        \E prefix \in {"Failed to update email: ",
                       "Failed to update masked email: "} :
            last.err = Carrying(prefix, last.remote.error)

----------------------------------------------------------------------------
\* The filters of the Email/query calls that a verb call posted.
QueryFilters(run) ==
    { run.calls[i].calls[1].args.filter
        : i \in { j \in 1..Len(run.calls) :
                    /\ run.calls[j].http = "POST"
                    /\ run.calls[j].calls[1].name = "Email/query" } }

\* C11: searchEmails with a bare string q sends an Email/query whose filter
\* is the OR of exactly the four conditions subject=q, from=q, to=q, body=q;
\* searchEmails with a structured filter that holds only from=a and
\* subject=b sends the flat filter with exactly those two keys.
C11_SearchFilterShape ==
    /\ (ninv = 1 /\ last.inv.bare) =>
          \A f \in QueryFilters(last) :
              f = [operator |-> "OR",
                   conditions |-> << [subject |-> last.inv.text],
                                     [from |-> last.inv.text],
                                     [to |-> last.inv.text],
                                     [body |-> last.inv.text] >>]
    /\ (/\ ninv = 1
        /\ last.inv.verb = "searchEmails"
        /\ ~last.inv.bare
        /\ last.inv.filter = [NoFilter EXCEPT !.from = <<"a">>,
                                              !.subject = <<"h">>]) =>
          \A f \in QueryFilters(last) :
              f = [from |-> <<"a">>, subject |-> <<"h">>]

----------------------------------------------------------------------------
\* The mailbox name that a verb call resolves, or Absent if it resolves none.
ResolvedName(v) ==
    CASE v.verb \in {"listEmails", "moveEmail"} -> v.mailbox
      [] v.verb = "markAsSpam" -> <<"j","u","n","k">>
      [] v.verb = "searchEmails" /\ ~v.bare /\ ~truthy(v.filter.query) ->
            IF truthy(v.filter.mailbox) THEN v.filter.mailbox ELSE Absent
      [] OTHER -> Absent

\* The verb call listed the mailboxes and none matches the name it resolves.
NoMailboxMatched ==
    /\ ninv = 1
    /\ last.remote = Healthy
    /\ ResolvedName(last.inv) # Absent
    /\ "Mailbox/get" \in MethodsIn(last.calls)
    /\ getMailboxByName(mailboxes, ResolvedName(last.inv)) = NoMailbox

\* C20: whenever a verb resolves a mailbox name and no mailbox matches, the
\* verb fails with a not-found failure and issues no Email/query and no
\* Email/set; for list, move, markSpam (no mailbox with the junk role) and
\* search with a mailbox filter.
C20_UnknownMailboxFails ==
    NoMailboxMatched =>
        /\ last.err \in {"Mailbox not found", "Target mailbox not found",
                         "Junk mailbox not found"}
        /\ MethodsIn(last.calls) \cap {"Email/query", "Email/set"} = {}

----------------------------------------------------------------------------
\* The GETs of the session endpoint among the requests of a verb call.
SessionGets(run) ==
    { i \in 1..Len(run.calls) : run.calls[i].http = "GET" }

\* C21: no failure is retried or swallowed. When a remote step of a verb
\* fails (the session fetch answers non-2xx, a batch answers non-2xx, a
\* response entry is a protocol error, a call has no response), the verb
\* throws, the failed request is the last one it makes, and it is made once.
C21_FailureStopsVerb ==
    /\ \A kind \in {"http", "error", "short"} :
          Faulted(kind) =>
              /\ last.err # NoErr
              /\ Len(Posts(last.calls)) = last.remote.at
    /\ (ninv = 1 /\ last.err = "Failed to get JMAP session") =>
          /\ SessionGets(last) = {Len(last.calls)}
          /\ Len(last.calls) = 1

----------------------------------------------------------------------------
\* The positions, among the POSTs of a verb call, of the calls of a method.
PostsOf(run, method) ==
    { i \in 1..Len(Posts(run.calls)) : Posts(run.calls)[i].calls[1].name = method }

Listing(run) ==
    /\ ninv = 1
    /\ run.inv.verb \in {"listEmails", "searchEmails", "searchEmailsText"}

\* C22: list and search query the ids first and fetch the details second.
\* When the query returns no id they return an empty list without an
\* Email/get; when it returns ids, exactly one Email/get follows the query,
\* for exactly those ids, and it is the last call.
C22_QueryThenFetch ==
    Listing(last) =>
        /\ Cardinality(PostsOf(last, "Email/query")) <= 1
        /\ \A g \in PostsOf(last, "Email/get") :
              /\ PostsOf(last, "Email/query") = {g - 1}
              /\ g = Len(Posts(last.calls))
              /\ Posts(last.calls)[g].calls[1].args.ids = last.ids
              /\ last.ids # <<>>
        /\ last.ids # <<>> => Cardinality(PostsOf(last, "Email/get")) = 1
        /\ (last.ids = <<>> /\ last.err = NoErr) =>
              /\ PostsOf(last, "Email/get") = {}
              /\ last.list = <<>>
        /\ last.err = NoErr => last.list = last.ids

\* A search that finds nothing made the Email/query and no Email/get.
C22_Witness ==
    /\ Listing(last)
    /\ last.inv.verb = "searchEmails"
    /\ last.inv.text = <<"z">>
    /\ last.err = NoErr
    /\ Cardinality(PostsOf(last, "Email/query")) = 1
    /\ PostsOf(last, "Email/get") = {}
    /\ last.list = <<>>

----------------------------------------------------------------------------
\* The back-reference markers in the arguments of a call: the emailId of a
\* submission it creates and the key of its on-success update.
MarkersOf(c) ==
    (IF "create" \in DOMAIN c.args /\ "submission" \in DOMAIN c.args.create
     THEN {c.args.create.submission.emailId} ELSE {})
    \cup
    (IF "onSuccessUpdateEmail" \in DOMAIN c.args
     THEN {c.args.onSuccessUpdateEmail.ref} ELSE {})

\* The markers that name what a call creates: "#" and the creation id.
CreationsOf(c) ==
    IF "create" \in DOMAIN c.args
    THEN { "#" \o k : k \in DOMAIN c.args.create }
    ELSE {}

\* The batches that the verb call posted.
BatchesPosted ==
    { Posts(last.calls)[i].calls : i \in 1..Len(Posts(last.calls)) }

\* C23 as stated: in every batch the correlation ids are pairwise distinct
\* and every back-reference marker names an entity created by a call
\* earlier in the same batch.
C23_MarkersReferEarlier ==
    ninv = 1 =>
        \A b \in BatchesPosted :
            /\ \A i, j \in 1..Len(b) : i # j => b[i].id # b[j].id
            /\ \A j \in 1..Len(b) : \A mk \in MarkersOf(b[j]) :
                  \E i \in 1..(j - 1) : mk \in CreationsOf(b[i])

\* C23, amended: in every batch the correlation ids are pairwise distinct
\* and every back-reference marker names an entity created in the same
\* batch, by an earlier call or by the call that carries the marker, never
\* by a later call or another batch. In send's batch the submission's
\* emailId "#draft" names the draft of the call before, and the key
\* "#submission" of the on-success update names the submission that the
\* same call creates.
C23_MarkersReferWithinBatch ==
    ninv = 1 =>
        \A b \in BatchesPosted :
            /\ \A i, j \in 1..Len(b) : i # j => b[i].id # b[j].id
            /\ \A j \in 1..Len(b) : \A mk \in MarkersOf(b[j]) :
                  \E i \in 1..j : mk \in CreationsOf(b[i])
            /\ \A j \in 1..Len(b) :
                  "onSuccessUpdateEmail" \in DOMAIN b[j].args =>
                      /\ b[j].args.onSuccessUpdateEmail.ref \in CreationsOf(b[j])
                      /\ \E i \in 1..(j - 1) :
                            b[j].args.create.submission.emailId
                               \in CreationsOf(b[i])

\* sendEmail posted its batch of two calls with both markers.
C23_Witness ==
    /\ ninv = 1
    /\ last.inv.verb = "sendEmail"
    /\ \E b \in BatchesPosted :
          /\ Len(b) = 2
          /\ MarkersOf(b[2]) = {"#draft", "#submission"}
          /\ CreationsOf(b[1]) = {"#draft"}
          /\ CreationsOf(b[2]) = {"#submission"}

----------------------------------------------------------------------------
\* The verb call was sendEmail and it posted a write.
SendPosted ==
    /\ ninv = 1
    /\ last.inv.verb = "sendEmail"
    /\ MethodsIn(last.calls) \cap WriteMethods # {}

\* C24: send issues a single batch of exactly two calls in this order: an
\* Email/set that creates the draft in exactly {Drafts} with exactly the
\* keyword $draft, then an EmailSubmission/set that refers to that draft and
\* whose on-success update sets the mailboxes to exactly {Sent} and clears
\* $draft. After a send that succeeded the message is in Sent only, is
\* submitted and is no draft; a send succeeded when it returned without an
\* error and the endpoint reported no rejection.
C24_SendBatchShape ==
    SendPosted =>
        /\ Cardinality(BatchesOf(last, 2)) = 1
        /\ BatchesOf(last, 2) = {Len(last.calls)}
        /\ \A i \in BatchesOf(last, 1) :
              last.calls[i].calls[1].name \notin WriteMethods
        /\ \A b \in {last.calls[Len(last.calls)].calls} :
              /\ b[1].name = "Email/set"
              /\ DOMAIN b[1].args.create = {"draft"}
              /\ b[1].args.create.draft.mailboxIds = {"mb-drafts"}
              /\ b[1].args.create.draft.keywords = {"$draft"}
              /\ b[2].name = "EmailSubmission/set"
              /\ b[2].args.create.submission.emailId = "#draft"
              /\ b[2].args.onSuccessUpdateEmail.mailboxIds = {"mb-sent"}
              /\ b[2].args.onSuccessUpdateEmail.clearKeyword = "$draft"
        /\ (/\ last.err = NoErr
            /\ \A i \in 1..Len(last.resp) :
                  /\ last.resp[i].error = NoSetError
                  /\ last.resp[i].notCreated = NoSetError
                  /\ last.resp[i].notUpdated = NoSetError) =>
              /\ Len(created) = 1
              /\ created[Len(created)].mailboxIds = {"mb-sent"}
              /\ "$draft" \notin created[Len(created)].keywords
              /\ created[Len(created)].submitted

\* A send succeeded on a healthy endpoint: the message is in Sent only.
C24_Witness ==
    /\ SendPosted
    /\ last.remote = Healthy
    /\ last.err = NoErr
    /\ last.value = "M1"
    /\ Len(created) = 1
    /\ created[1].mailboxIds = {"mb-sent"}
    /\ created[1].keywords = {}

----------------------------------------------------------------------------
\* The run was a markAsRead of e1 that posted its write.
ReadMarked(run) ==
    /\ run.inv.tool = "mark_as_read"
    /\ run.inv.email_id = "e1"
    /\ "Email/set" \in MethodsIn(run.calls)

\* The flag markAsRead was called with.
ReadFlag(run) == run.inv.read # "false"

\* C25: markAsRead(id, read) reads, then writes. It writes one update whose
\* patch holds keywords only (no mailbox membership): the set it read with
\* $seen added when read is true and removed when it is false, every other
\* keyword as it was. The mailboxes of the email and the other emails stay as
\* they were, and a second call with the same flag writes the same set.
C25_MarkAsReadFrame ==
    ReadMarked(last) =>
        /\ Cardinality({ i \in DOMAIN last.calls :
                           /\ last.calls[i].http = "POST"
                           /\ last.calls[i].calls[1].name = "Email/set" }) = 1
        /\ Posts(last.calls)[Len(Posts(last.calls)) - 1].calls[1].name
              = "Email/get"
        /\ DOMAIN WrittenPatch(last) = {"keywords"}
        /\ WrittenPatch(last).keywords \ {"$seen"}
              = last.was["e1"].keywords \ {"$seen"}
        /\ ("$seen" \in WrittenPatch(last).keywords) = ReadFlag(last)
        /\ emails["e1"] = [mailboxIds |-> last.was["e1"].mailboxIds,
                           keywords |-> WrittenPatch(last).keywords]
        /\ \A e \in EmailIds \ {"e1"} : emails[e] = last.was[e]
        /\ (ReadMarked(prev) /\ ReadFlag(prev) = ReadFlag(last)) =>
               /\ WrittenPatch(last) = WrittenPatch(prev)
               /\ emails = last.was

\* e1, flagged and in two mailboxes, was marked as read twice: both calls
\* wrote {$flagged, $seen}.
C25_Witness ==
    /\ ReadMarked(last)
    /\ ReadMarked(prev)
    /\ ReadFlag(last)
    /\ ReadFlag(prev)
    /\ WrittenPatch(last).keywords = {"$flagged", "$seen"}
    /\ WrittenPatch(prev).keywords = {"$flagged", "$seen"}
    /\ emails["e1"].mailboxIds = {"mb-inbox", "mb-user4"}

----------------------------------------------------------------------------
\* The first line of the attribution block.
ForwardedMarker == "\n\n---------- Forwarded message ---------\nFrom: "

\* Where x stands in body.
IndexIn(body, x) == CHOOSE i \in 1..Len(body) : body[i] = x

\* buildForward returned and the model holds what it returned.
Forwarded == ninv = 1 /\ "original" \in DOMAIN last

\* The values of the body values that the first text body part designates.
Designated(c) ==
    { c.bodyValues[i].value :
        i \in { j \in 1..Len(c.bodyValues) :
                  c.textBody # <<>> /\ c.bodyValues[j].partId = c.textBody[1] } }

\* The text the claim expects of the original.
ExpectedText(c) ==
    IF c.bodyValues = NoBodyValues \/ c.bodyValues = <<>> THEN <<>>
    ELSE IF Designated(c) # {} THEN CHOOSE t \in Designated(c) : TRUE
    ELSE c.bodyValues[1].value

\* What holds of every forward: no recipients, the subject rule, the text of
\* the original at the end of the body, after the attribution block.
ForwardPrepared ==
    /\ last.params.to = NoAddrs
    /\ startsWith(toLowerCase(last.params.subject), FwdText)
    /\ IF startsWith(toLowerCase(last.original.subject), FwdText)
       THEN last.params.subject = last.original.subject
       ELSE last.params.subject
              = <<"F","w","d",":"," ">> \o last.original.subject
    /\ \E k \in 1..Len(last.params.textBody) :
          /\ last.params.textBody[k] = "\nSubject: "
          /\ k > IndexIn(last.params.textBody, "\nDate: ")
          /\ IndexIn(last.params.textBody, "\nDate: ")
                > IndexIn(last.params.textBody, ForwardedMarker)
          /\ SubSeq(last.params.textBody, k + 1, Len(last.params.textBody))
                \in { last.original.subject \o <<"\n\n">> \o tail
                        : tail \in { ExpectedText(last.original),
                                     last.forwardBody
                                        \o ExpectedText(last.original) } }

\* C26: forward prepares content only: the recipient list it returns is
\* empty, the subject gets "Fwd: " in front unless it starts with "fwd:" in
\* any case, the text of the original is the value of the designated text
\* body part if present, else the first body value, and in the body the
\* attribution block (sender, date, original subject) stands before the
\* caller's note.
C26_BlockBeforeNote ==
    Forwarded =>
        /\ ForwardPrepared
        /\ IndexIn(last.params.textBody, ForwardedMarker) = 1
        /\ \E k \in 1..(Len(last.params.textBody) + 1) :
              /\ k > IndexIn(last.params.textBody, "\nSubject: ")
              /\ SubSeq(last.params.textBody, k,
                        k + Len(last.forwardBody) - 1) = last.forwardBody

\* C26, amended: as above, but the caller's note begins the body and the
\* attribution block follows it directly; the text of the original ends the
\* body.
C26_NoteBeforeBlock ==
    Forwarded =>
        /\ ForwardPrepared
        /\ SubSeq(last.params.textBody, 1, Len(last.forwardBody))
              = last.forwardBody
        /\ IndexIn(last.params.textBody, ForwardedMarker)
              = Len(last.forwardBody) + 1
        /\ \E k \in 1..Len(last.params.textBody) :
              /\ last.params.textBody[k] = "\nSubject: "
              /\ SubSeq(last.params.textBody, k + 1, Len(last.params.textBody))
                    = last.original.subject \o <<"\n\n">>
                        \o ExpectedText(last.original)

\* An original with the subject "FWD:hi" whose designated text part is not
\* among the body values was forwarded with a note: the subject is kept, the
\* body begins with the note and ends with the first body value.
C26_Witness ==
    /\ Forwarded
    /\ last.forwardBody = <<"y","o">>
    /\ last.original.subject = <<"F","W","D",":","h","i">>
    /\ last.params.subject = <<"F","W","D",":","h","i">>
    /\ last.original.textBody = <<"3">>
    /\ Len(last.original.bodyValues) = 2
    /\ last.original.bodyValues[1].partId = "2"
    /\ last.params.textBody[1] = "y"
    /\ SubSeq(last.params.textBody, Len(last.params.textBody) - 1,
              Len(last.params.textBody)) = <<"n","o">>

----------------------------------------------------------------------------
\* Call i of the log failed because its session fetch was refused.
FetchFailed(i) == ~log[i].ok /\ log[i].err = "session fetch failed"

\* C27: a session fetch that fails with a non-2xx status leaves the session
\* cache as it was, empty unless a fetch has succeeded, and never stores
\* a partial or invalid Session. The failure is not sticky: a call that
\* starts after it finds the cache empty, performs a fresh fetch, and
\* succeeds with the Session of that fetch if the fetch succeeds.
C27_FailedFetchNotSticky ==
    /\ [][ (/\ Len(log') = Len(log) + 1
            /\ FetchFailed(Len(log))') =>
               (client' = client /\ lastWrite' = lastWrite) ]_vars
    /\ [](/\ client.session \in RemoteSessions \cup {NoSession}
          /\ \A i \in 1..Len(log) : FetchFailed(i) =>
               /\ log[i].fetched /\ log[i].own = NoSession
               /\ okFetches = 0 => client.session = NoSession
               /\ \A k \in 1..Len(log) :
                    /\ (log[k].startAt >= i /\ okFetches = 0) =>
                          log[k].startedEmpty
                    /\ (log[k].startAt >= i /\ log[k].startedEmpty) =>
                          /\ log[k].fetched
                          /\ log[k].ok = (log[k].own # NoSession)
                          /\ log[k].ok => log[k].sess = log[k].own
               /\ \A p \in Callers :
                    (pc[p] # "idle" /\ cur[p].startAt >= i
                     /\ cur[p].startedEmpty) => cur[p].fetched)

\* The first getSession failed on a refused fetch, the second one fetched
\* again and returned the Session that is now cached.
C27_Witness ==
    /\ Len(log) >= 2
    /\ FetchFailed(1)
    /\ log[1].kind = "getSession" /\ log[2].kind = "getSession"
    /\ log[2].startAt = 1
    /\ log[2].startedEmpty /\ log[2].fetched /\ log[2].ok
    /\ log[2].sess = [state |-> "s1", mailAccount |-> "u1"]
    /\ client.session = log[2].sess
    /\ sessionFetches = 2

----------------------------------------------------------------------------
\* The verb call was a sendEmail that failed.
SendFailed ==
    /\ ninv = 1
    /\ last.inv.verb = "sendEmail"
    /\ last.err # NoErr

\* C28: send is all-or-nothing as seen by the caller: whenever sendEmail
\* fails (no identity, no Drafts or Sent mailbox, draft rejected, submission
\* rejected) the invocation has left no new email on the server; a rejected
\* submission does not leave the draft of call 0 behind in Drafts.
C28_SendAllOrNothing ==
    SendFailed =>
        /\ created = <<>>
        /\ last.sent = 0
        /\ emails = last.was

----------------------------------------------------------------------------
\* C29: keyword updates of interleaved verbs on the same email are not lost:
\* when markAsRead(id, true) and markAsSpam(id) overlap, each reading the
\* keywords and then writing the full set, the final keyword set of the email
\* holds both $seen and $junk, in every interleaving.
C29_NoLostKeywordUpdate ==
    (\A p \in Callers : pc[p] = "done") =>
        {"$seen", "$junk"} \subseteq emails["e1"].keywords

----------------------------------------------------------------------------
\* The blob downloads among the requests of a run.
Downloads(run) ==
    { i \in 1..Len(run.calls) : "blob" \in DOMAIN run.calls[i] }

\* The email the run names exists and one of its attachments has the blob id
\* the run names.
OwnsBlob(run) ==
    /\ run.inv.emailId \in EmailIds
    /\ \E i \in 1..Len(EmailContent[run.inv.emailId].attachments) :
          /\ EmailContent[run.inv.emailId].attachments[i].blobId
                = run.inv.blobId
          /\ run.inv.blobId # NoBlob

NotFoundErrors == {"Email not found", "Attachment not found"}

\* C30: downloadAttachment(emailId, blobId) downloads a blob only after it
\* has confirmed that blobId is one of the attachments of the email emailId:
\* the one download it makes follows the Email/get of that email and asks for
\* that blob. If the email does not exist or none of its attachments has the
\* blob id, it fails with a not-found error and downloads nothing.
C30_DownloadOnlyOwnAttachment ==
    (ninv = 1 /\ last.inv.verb = "downloadAttachment") =>
        /\ Downloads(last) # {} =>
              /\ OwnsBlob(last)
              /\ Downloads(last) = {Len(last.calls)}
              /\ last.calls[Len(last.calls)].blob = last.inv.blobId
              /\ last.calls[Len(last.calls)].account = "u1"
              /\ last.calls[Len(last.calls) - 1].http = "POST"
              /\ last.calls[Len(last.calls) - 1].calls[1].name = "Email/get"
              /\ last.calls[Len(last.calls) - 1].calls[1].args.ids
                    = <<last.inv.emailId>>
              /\ last.err = NoErr
        /\ ~OwnsBlob(last) =>
              /\ Downloads(last) = {}
              /\ last.err # NoErr
              /\ (last.remote = Healthy /\ accountOf(client.session) # NoAccount)
                    => last.err \in NotFoundErrors
        /\ (OwnsBlob(last) /\ last.err = NoErr) => Downloads(last) # {}

\* B3, an attachment of e3, was asked for as an attachment of e1: the verb
\* fetched e1 and failed without a download.
C30_Witness ==
    /\ ninv = 1
    /\ last.inv.verb = "downloadAttachment"
    /\ last.inv.emailId = "e1"
    /\ last.inv.blobId = "B3"
    /\ last.err = "Attachment not found"
    /\ "Email/get" \in MethodsIn(last.calls)
    /\ Downloads(last) = {}

====
